---- MODULE Spec2Model ----
(***************************************************************************)
(* Model of the Termix SSH relay (src/backend/ssh.cjs): one closure of     *)
(* state per socket.io connection, the ssh2 connections and shell channels *)
(* it creates, the setImmediate queue of the Node event loop, and the      *)
(* messages that reach the client and the remote channel.                  *)
(***************************************************************************)
EXTENDS Integers, Sequences, FiniteSets, TLC

\* The client transports (socket.io connections) served by the relay.
Sockets == {"A", "B"}

\* JavaScript null for the references conn / stream.
Null == 0

\* ---- bounds of the model ------------------------------------------------
MaxConnects == 2   \* SSH connections created (new SSHClient), all sockets
MaxLifeConnects == 3  \* the same, where only the connection lifecycle runs
MaxRejects  == 1   \* rejected connectToHost requests, all sockets
MaxData     == 2   \* client `data` events, all sockets
MaxChunks   == 2   \* chunks produced by remote shells, all channels
MaxResize   == 1   \* client `resize` events, all sockets
MaxPings    == 1   \* ticks of the relay's ping interval, all sockets

\* ---- inputs --------------------------------------------------------------
\* Terminal geometries <<cols, rows>> a client may request.
Geometries == {<<80, 24>>, <<120, 40>>}

\* hostConfig values: absent, or an object whose fields may be falsy.
HostConfig(present, ip, user, port, password, sshKey) ==
    [present |-> present, ip |-> ip, user |-> user, port |-> port,
     password |-> password, sshKey |-> sshKey]

HostConfigs ==
    { HostConfig(FALSE, "", "", 0, "", ""),
      HostConfig(TRUE, "", "alice", 22, "x", ""),
      HostConfig(TRUE, "10.0.0.5", "", 22, "x", ""),
      HostConfig(TRUE, "10.0.0.5", "alice", 0, "x", ""),
      HostConfig(TRUE, "10.0.0.5", "alice", 22, "", ""),
      HostConfig(TRUE, "10.0.0.5", "alice", 22, "x", ""),
      HostConfig(TRUE, "10.0.0.5", "alice", 22, "", "k"),
      HostConfig(TRUE, "10.0.0.5", "alice", 22, "x", "k") }

VARIABLES
    connected,  \* socket.connected, per socket
    conn,       \* `let conn` of the socket's closure: connection id or Null
    stream,     \* `let stream` of the socket's closure: channel id or Null
    pingTimer,  \* `let pingTimer`: TRUE when it holds an interval handle
    timerOn,    \* whether that interval is still scheduled in the event loop
    handlers,   \* closures registered by socket.on("data") / socket.on("resize")
    conns,      \* the SSHClient objects created so far
    chans,      \* per `ready` handler: its shell request, channel and buffers
    out,        \* messages delivered to each client, per message type
    recv,       \* requests received from each client
    immq,       \* the setImmediate queue (FIFO)
    last,       \* the event handled last, then the calls its handler made
    crashed,    \* an exception escaped a handler (uncaught)
    heartbeat,  \* the terminal client's ping interval (SSHTerminal.jsx)
    observer,   \* the terminal clients' resize observers (.jsx and .tsx)
    codec,      \* one run of the store's encryptData / decryptData
    store,      \* the users and hosts collections and the handler's reply
    registry,   \* window.terminalSockets of the terminal client
    calls,      \* the store client's emits with acknowledgment (User.jsx)
    loop,       \* the event loop of the backend process
    mount       \* the effect runs of a terminal component (SSHTerminal.tsx)

\* The variables of the relay, of the clients and of the store's codec.
relayVars == <<connected, conn, stream, pingTimer, timerOn, handlers, conns,
               chans, out, recv, immq, last, crashed>>
sideVars == <<heartbeat, observer, codec, store, registry, calls, loop,
              mount>>
vars == <<connected, conn, stream, pingTimer, timerOn, handlers, conns, chans,
          out, recv, immq, last, crashed, heartbeat, observer, codec, store,
          registry, calls, loop, mount>>

\* ---- helpers -------------------------------------------------------------
RECURSIVE Flatten(_)
Flatten(ss) == IF ss = <<>> THEN <<>> ELSE Head(ss) \o Flatten(Tail(ss))

\* Sum of the values of a function with a finite domain.
RECURSIVE SumOn(_, _)
SumOn(S, f) ==
    IF S = {} THEN 0
    ELSE LET x == CHOOSE y \in S : TRUE IN f[x] + SumOn(S \ {x}, f)

Sum(f) == SumOn(DOMAIN f, f)

Conns == 1..Len(conns)

\* The state as one record, threaded through the statements of a handler;
\* fx collects the calls the handler makes.
Cur ==
    [connected |-> connected, conn |-> conn, stream |-> stream,
     pingTimer |-> pingTimer, timerOn |-> timerOn, handlers |-> handlers,
     conns |-> conns, chans |-> chans, out |-> out, recv |-> recv,
     immq |-> immq, fx |-> <<>>, crashed |-> crashed]

Commit(S, h) ==
    /\ connected' = S.connected
    /\ conn' = S.conn
    /\ stream' = S.stream
    /\ pingTimer' = S.pingTimer
    /\ timerOn' = S.timerOn
    /\ handlers' = S.handlers
    /\ conns' = S.conns
    /\ chans' = S.chans
    /\ out' = S.out
    /\ recv' = S.recv
    /\ immq' = S.immq
    /\ last' = <<h>> \o S.fx
    /\ crashed' = S.crashed
    /\ UNCHANGED sideVars

Fx(S, e) == [S EXCEPT !.fx = Append(@, e)]

\* socket.emit(type, payload): delivered only while the transport is connected.
Emit(S, s, type, payload) ==
    LET S1 == Fx(S, <<"emit", s, type, payload>>)
    IN  IF S.connected[s]
        THEN [S1 EXCEPT !.out[s][type] = Append(@, payload)]
        ELSE S1

\* An exception that no try/catch of the relay catches.
Throw(S) == [Fx(S, <<"throw">>) EXCEPT !.crashed = TRUE]

\* A library call on a connection whose socket has failed may throw.
MayThrow(S, t) == S.conns[t].st = "broken"

\* conn.end() on connection t; fails = the call throws (caught by the caller).
ConnEnd(S, t, fails) ==
    IF fails THEN Fx(S, <<"end", t, "threw">>)
    ELSE LET S1 == Fx(S, <<"end", t, "ok">>)
         IN  [S1 EXCEPT !.conns[t].st =
                  IF @ \in {"connecting", "authed", "broken"} THEN "ended" ELSE @]

\* stream.end() on channel k.
StreamEnd(S, k) ==
    LET S1 == Fx(S, <<"streamEnd", k>>)
    IN  [S1 EXCEPT !.chans[k].st = IF @ = "open" THEN "ended" ELSE @]

\* stream.setWindow(rows, cols, height, width) on channel k (ssh2 order).
SetWindow(S, k, rows, cols, height, width) ==
    LET S1 == Fx(S, <<"setWindow", k, rows, cols>>)
    IN  [S1 EXCEPT !.chans[k].pty = <<cols, rows>>]

\* conn.exec("stty cols C rows R ...") on connection t.
ExecStty(S, t, cols, rows) ==
    LET S1 == Fx(S, <<"exec", t, cols, rows>>)
    IN  [S1 EXCEPT !.conns[t].stty = <<cols, rows>>]

\* stream.write(data) on channel k.
StreamWrite(S, k, data) ==
    LET S1 == Fx(S, <<"write", k, data>>)
    IN  [S1 EXCEPT !.chans[k].written = Append(@, data)]

NewConn(s, cols, rows) ==
    [sock |-> s, cols |-> cols, rows |-> rows, st |-> "connecting",
     erred |-> FALSE, stty |-> <<>>]

NewChan ==
    [st |-> "none", on |-> Null, pty |-> <<>>, readyFired |-> FALSE,
     errFired |-> FALSE,
     dataBuffer |-> <<>>, isProcessingBuffer |-> FALSE,
     outgoingBuffer |-> <<>>, isProcessingOutgoing |-> FALSE,
     produced |-> <<>>, written |-> <<>>]

NoOut == [data |-> <<>>, error |-> <<>>, resize |-> <<>>, ping |-> <<>>]
NoRecv == [data |-> <<>>, resize |-> <<>>, rejected |-> 0, idle |-> {}]

\* The clients and the codec before they are started (each is started by
\* the specification that runs it).
NotStarted == [started |-> FALSE]

\* ---- initial state: both clients connected, setupPingInterval() done ----
InitRelay ==
    /\ connected = [s \in Sockets |-> TRUE]
    /\ conn = [s \in Sockets |-> Null]
    /\ stream = [s \in Sockets |-> Null]
    /\ pingTimer = [s \in Sockets |-> TRUE]
    /\ timerOn = [s \in Sockets |-> TRUE]
    /\ handlers = [s \in Sockets |-> <<>>]
    /\ conns = <<>>
    /\ chans = <<>>
    /\ out = [s \in Sockets |-> NoOut]
    /\ recv = [s \in Sockets |-> NoRecv]
    /\ immq = <<>>
    /\ last = <<<<"connection">>>>
    /\ crashed = FALSE

Init ==
    /\ InitRelay
    /\ heartbeat = NotStarted
    /\ observer = NotStarted
    /\ codec = NotStarted
    /\ store = NotStarted
    /\ registry = NotStarted
    /\ calls = NotStarted
    /\ loop = NotStarted
    /\ mount = NotStarted

\* ---- socket.on("connectToHost") -----------------------------------------
\* Mutant: the port is not checked.
MissingDetailsNoPort(hc) ==
    \/ ~hc.present
    \/ hc.ip = ""
    \/ hc.user = ""

MissingDetails(hc) ==
    \/ ~hc.present
    \/ hc.ip = ""
    \/ hc.user = ""
    \/ hc.port = 0

NoAuthentication(hc) == hc.password = "" /\ hc.sshKey = ""

NRejected == Sum([s \in Sockets |-> recv[s].rejected])

\* Lines 72-80: drop and end the connection the session holds.
TeardownExisting(S, s, fails) ==
    IF S.conn[s] # Null
    THEN LET currentConn == S.conn[s]
             S1 == [S EXCEPT !.conn[s] = Null, !.stream[s] = Null]
         IN  ConnEnd(S1, currentConn, fails)
    ELSE S

\* Lines 82-83, 261-272: new SSHClient(), handlers attached, connect().
StartConnection(S, s, cols, rows, hc) ==
    LET c == Len(S.conns) + 1
        S1 == [S EXCEPT !.conns = Append(@, NewConn(s, cols, rows)),
                        !.chans = Append(@, NewChan),
                        !.conn[s] = c]
    IN  Fx(S1, <<"connect", c>>)

ConnectToHostBody(S, s, cols, rows, hc, fails) ==
    IF MissingDetails(hc)
    THEN Emit([S EXCEPT !.recv[s].rejected = @ + 1], s, "error", "missing")
    ELSE IF NoAuthentication(hc)
    THEN Emit([S EXCEPT !.recv[s].rejected = @ + 1], s, "error", "auth")
    ELSE StartConnection(TeardownExisting(S, s, fails), s, cols, rows, hc)

ConnectToHost(s, g, hc, fails) ==
    /\ ~crashed
    /\ connected[s]
    /\ fails => (conn[s] # Null /\ MayThrow(Cur, conn[s]))
    /\ fails => ~(MissingDetails(hc) \/ NoAuthentication(hc))
    /\ Commit(ConnectToHostBody(Cur, s, g[1], g[2], hc, fails),
              <<"connectToHost", s, g, hc>>)

\* ---- conn.on("ready") and the conn.shell callback -----------------------
\* Lines 84-94: the handler calls shell() on whatever the closure's `conn`
\* references now; on null that is a TypeError. A request made on a
\* connection that is not authenticated cannot open a channel ("refused").
ConnReadyBody(S, c) ==
    LET s == S.conns[c].sock
        t == S.conn[s]
        S1 == [S EXCEPT !.conns[c].st = "authed"]
    IN  IF t = Null
        THEN Throw(S1)
        ELSE Fx([S1 EXCEPT !.chans[c].st = IF S1.conns[t].st = "authed"
                                           THEN "pending" ELSE "refused",
                           !.chans[c].on = t],
                <<"shell", t>>)

ConnReady(c) ==
    /\ ~crashed
    /\ conns[c].st = "connecting"
    /\ Commit(ConnReadyBody(Cur, c), <<"ready", c>>)

\* Lines 95-99: shell callback with an error.
ShellErrorBody(S, c) ==
    Emit([S EXCEPT !.chans[c].st = "failed"], S.conns[c].sock, "error", "shell")

ShellError(c) ==
    /\ ~crashed
    /\ chans[c].st \in {"pending", "refused"}
    /\ Commit(ShellErrorBody(Cur, c), <<"shellError", c>>)

\* Mutant: the initial window is set with rows and columns exchanged.
ShellOpenSwapped(S, c) ==
    LET s == S.conns[c].sock
        currentCols == S.conns[c].cols
        currentRows == S.conns[c].rows
        S1 == [S EXCEPT !.chans[c].st = "open", !.stream[s] = c]
        S2 == SetWindow(S1, S1.stream[s], currentCols, currentRows,
                        currentCols, currentRows)
        S3 == [S2 EXCEPT !.handlers[s] = Append(@, c)]
    IN  Emit(S3, s, "resize", <<S.conns[c].cols, S.conns[c].rows>>)

\* Lines 100-220: shell callback with the new channel. The channel, its
\* buffers and the socket handlers registered here are identified by c.
ShellOpenBody(S, c) ==
    LET s == S.conns[c].sock
        currentCols == S.conns[c].cols
        currentRows == S.conns[c].rows
        S1 == [S EXCEPT !.chans[c].st = "open", !.stream[s] = c]
        S2 == SetWindow(S1, S1.stream[s], currentRows, currentCols,
                        currentRows, currentCols)
        S3 == [S2 EXCEPT !.handlers[s] = Append(@, c)]
    IN  Emit(S3, s, "resize", <<S.conns[c].cols, S.conns[c].rows>>)

ShellOpen(c) ==
    /\ ~crashed
    /\ chans[c].st = "pending"
    /\ conns[chans[c].on].st = "authed"
    /\ Commit(ShellOpenBody(Cur, c), <<"shellOpen", c>>)

\* Lines 107-111: stream.once('ready') runs stty through conn.exec.
StreamReadyBody(S, c) ==
    LET s == S.conns[c].sock
        t == S.conn[s]
        S1 == [S EXCEPT !.chans[c].readyFired = TRUE]
    IN  IF t = Null THEN Throw(S1)
        ELSE ExecStty(S1, t, S.conns[c].cols, S.conns[c].rows)

StreamReady(c, fails) ==
    /\ ~crashed
    /\ chans[c].st = "open"
    /\ ~chans[c].readyFired
    /\ conns[chans[c].on].st \in {"authed", "broken"}
    /\ fails => (conn[conns[c].sock] # Null /\ MayThrow(Cur, conn[conns[c].sock]))
    /\ Commit(IF fails THEN Throw([Cur EXCEPT !.chans[c].readyFired = TRUE])
              ELSE StreamReadyBody(Cur, c), <<"streamReady", c>>)

\* ---- remote -> client: stream.on("data") and processBuffer --------------
NChunks == Sum([c \in Conns |-> Len(chans[c].produced)])

\* Lines 146-152.
StreamDataBody(S, c, data) ==
    LET S1 == [S EXCEPT !.chans[c].produced = Append(@, data),
                        !.chans[c].dataBuffer = Append(@, data)]
    IN  IF ~S1.chans[c].isProcessingBuffer
        THEN [S1 EXCEPT !.immq = Append(@, <<"processBuffer", c>>)]
        ELSE S1

StreamData(c) ==
    /\ ~crashed
    /\ chans[c].st = "open"
    /\ conns[chans[c].on].st = "authed"
    /\ Commit(StreamDataBody(Cur, c, <<NChunks + 1>>), <<"streamData", c>>)

\* Lines 124-136: one chunk is passed through, several are copied into one.
Combine(currentBuffer) ==
    IF Len(currentBuffer) > 1 THEN Flatten(currentBuffer) ELSE currentBuffer[1]

\* Mutant: a flush takes one chunk from the queue and leaves the rest.
ProcessBufferOne(S, c) ==
    IF Len(S.chans[c].dataBuffer) = 0 \/ S.chans[c].isProcessingBuffer
    THEN S
    ELSE LET currentBuffer == <<Head(S.chans[c].dataBuffer)>>
             S1 == [S EXCEPT !.chans[c].dataBuffer = Tail(@)]
         IN  Emit(S1, S.conns[c].sock, "data", Combine(currentBuffer))

\* Lines 116-144.
ProcessBufferBody(S, c) ==
    IF Len(S.chans[c].dataBuffer) = 0 \/ S.chans[c].isProcessingBuffer
    THEN S
    ELSE LET currentBuffer == S.chans[c].dataBuffer
             S1 == [S EXCEPT !.chans[c].dataBuffer = <<>>]
         IN  Emit(S1, S.conns[c].sock, "data", Combine(currentBuffer))

ProcessBuffer ==
    /\ ~crashed
    /\ immq # <<>>
    /\ Head(immq)[1] = "processBuffer"
    /\ Commit(ProcessBufferBody([Cur EXCEPT !.immq = Tail(@)], Head(immq)[2]),
              <<"processBuffer", Head(immq)[2]>>)

\* ---- client -> remote: socket.on("data") and processOutgoingBuffer ------
NData == Sum([s \in Sockets |-> Len(recv[s].data)])

\* Lines 199-205, one registered handler.
DataHandler(S, k, data) ==
    LET S1 == [S EXCEPT !.chans[k].outgoingBuffer = Append(@, data)]
    IN  IF ~S1.chans[k].isProcessingOutgoing
        THEN [S1 EXCEPT !.immq = Append(@, <<"processOutgoingBuffer", k>>)]
        ELSE S1

\* The event emitter calls the registered handlers in registration order.
RECURSIVE RunDataHandlers(_, _, _)
RunDataHandlers(S, hs, data) ==
    IF hs = <<>> THEN S
    ELSE RunDataHandlers(DataHandler(S, Head(hs), data), Tail(hs), data)

\* Session s has no open channel: none was opened yet, or the one it had is
\* closed and its reference cleared.
NoChannel(s) == stream[s] = Null \/ chans[stream[s]].st # "open"

\* recv[s].idle keeps the payloads that arrived while s had no open channel.
SocketData(s) ==
    /\ ~crashed
    /\ connected[s]
    /\ LET data == <<NData + 1>>
           S1 == [Cur EXCEPT !.recv[s].data = Append(@, data),
                             !.recv[s].idle = IF NoChannel(s)
                                              THEN @ \cup {data[1]} ELSE @]
       IN  Commit(RunDataHandlers(S1, handlers[s], data), <<"data", s, data>>)

\* A string join: the payloads concatenated.
Join(outgoingBuffer) == Flatten(outgoingBuffer)

\* Mutant: the flush writes to the stream of one fixed session, as if the
\* stream reference were shared by all transports.
ProcessOutgoingShared(S, k, fails) ==
    LET s == "A"
    IN  IF Len(S.chans[k].outgoingBuffer) = 0
           \/ S.chans[k].isProcessingOutgoing
           \/ S.stream[s] = Null
        THEN S
        ELSE LET currentBuffer == Join(S.chans[k].outgoingBuffer)
                 S1 == [S EXCEPT !.chans[k].outgoingBuffer = <<>>]
             IN  IF fails THEN Throw(S1)
                 ELSE StreamWrite(S1, S.stream[s], currentBuffer)

\* Lines 183-197.
ProcessOutgoingBufferBody(S, k, fails) ==
    LET s == S.conns[k].sock
    IN  IF Len(S.chans[k].outgoingBuffer) = 0
           \/ S.chans[k].isProcessingOutgoing
           \/ S.stream[s] = Null
        THEN S
        ELSE LET currentBuffer == Join(S.chans[k].outgoingBuffer)
                 S1 == [S EXCEPT !.chans[k].outgoingBuffer = <<>>]
             IN  IF fails THEN Throw(S1)
                 ELSE StreamWrite(S1, S.stream[s], currentBuffer)

WouldWrite(k) ==
    /\ Len(chans[k].outgoingBuffer) # 0
    /\ stream[conns[k].sock] # Null

ProcessOutgoingBuffer(fails) ==
    /\ ~crashed
    /\ immq # <<>>
    /\ Head(immq)[1] = "processOutgoingBuffer"
    /\ LET k == Head(immq)[2]
       IN  /\ fails => (WouldWrite(k)
                        /\ MayThrow(Cur, chans[stream[conns[k].sock]].on))
           /\ Commit(ProcessOutgoingBufferBody([Cur EXCEPT !.immq = Tail(@)],
                                               k, fails),
                     <<"processOutgoingBuffer", k>>)

\* ---- socket.on("resize") --------------------------------------------------
NResize == Sum([s \in Sockets |-> Len(recv[s].resize)])

\* Lines 207-218, one registered handler; data = <<cols, rows>>.
ResizeHandler(S, s, data, fails) ==
    IF S.stream[s] # Null
    THEN LET cols == data[1]
             rows == data[2]
             S1 == SetWindow(S, S.stream[s], rows, cols, rows, cols)
             S2 == IF S1.conn[s] # Null
                   THEN IF fails THEN Throw(S1)
                        ELSE ExecStty(S1, S1.conn[s], cols, rows)
                   ELSE S1
         IN  IF S2.crashed THEN S2
             ELSE Emit(S2, s, "resize", <<cols, rows>>)
    ELSE S

RECURSIVE RunResizeHandlers(_, _, _, _, _)
RunResizeHandlers(S, s, hs, data, fails) ==
    IF hs = <<>> \/ S.crashed THEN S
    ELSE RunResizeHandlers(ResizeHandler(S, s, data, fails), s, Tail(hs),
                           data, fails)

SocketResize(s, data, fails) ==
    /\ ~crashed
    /\ connected[s]
    /\ fails => (/\ handlers[s] # <<>>
                 /\ stream[s] # Null
                 /\ conn[s] # Null
                 /\ MayThrow(Cur, conn[s]))
    /\ LET S1 == [Cur EXCEPT !.recv[s].resize = Append(@, data)]
       IN  Commit(RunResizeHandlers(S1, s, handlers[s], data, fails),
                  <<"resize", s, data>>)

\* ---- the relay's ping interval (lines 33-54) -----------------------------
PingTickBody(S, s) ==
    IF S.connected[s]
    THEN Emit(S, s, "ping", "ping")
    ELSE [S EXCEPT !.timerOn[s] = FALSE]

PingTick(s) ==
    /\ ~crashed
    /\ timerOn[s]
    /\ Commit(PingTickBody(Cur, s), <<"pingTick", s>>)

\* ---- stream.on("error") / stream.on("close") ----------------------------
\* Lines 154-157.
StreamErrorBody(S, c) ==
    Emit([S EXCEPT !.chans[c].errFired = TRUE], S.conns[c].sock, "error",
         "stream")

StreamError(c) ==
    /\ ~crashed
    /\ chans[c].st \in {"open", "ended"}
    /\ ~chans[c].errFired
    /\ Commit(StreamErrorBody(Cur, c), <<"streamError", c>>)

\* Lines 159-178: stream and conn are the closure's variables, whatever
\* channel the event belongs to.
StreamCloseBody(S, c, fails) ==
    LET s == S.conns[c].sock
        S1 == [S EXCEPT !.chans[c].st = "closed"]
        S2 == IF S1.stream[s] # Null THEN StreamEnd(S1, S1.stream[s]) ELSE S1
        S3 == IF S2.conn[s] # Null
              THEN [ConnEnd(S2, S2.conn[s], fails) EXCEPT !.conn[s] = Null]
              ELSE S2
    IN  [S3 EXCEPT !.stream[s] = Null]

StreamClose(c, fails) ==
    /\ ~crashed
    /\ chans[c].st \in {"open", "ended"}
    /\ fails => (conn[conns[c].sock] # Null
                 /\ MayThrow(Cur, conn[conns[c].sock]))
    /\ Commit(StreamCloseBody(Cur, c, fails), <<"streamClose", c>>)

\* ---- conn.on("close") / conn.on("error") --------------------------------
\* The connection's socket fails; its events are delivered later.
NetFail(c) ==
    /\ ~crashed
    /\ conns[c].st \in {"connecting", "authed"}
    /\ Commit([Cur EXCEPT !.conns[c].st = "broken"], <<"netFail", c>>)

\* Lines 223-233.
ConnCloseBody(S, c) ==
    LET s == S.conns[c].sock
        S1 == [S EXCEPT !.conns[c].st = "closed"]
        S2 == IF S1.stream[s] # Null THEN StreamEnd(S1, S1.stream[s]) ELSE S1
    IN  [S2 EXCEPT !.conn[s] = Null, !.stream[s] = Null]

ConnClose(c) ==
    /\ ~crashed
    /\ conns[c].st # "closed"
    /\ Commit(ConnCloseBody(Cur, c), <<"connClose", c>>)

\* What ssh2 reports through the `error` event of a connection.
Causes == {"All configured authentication methods failed",
           "Timed out while waiting for handshake"}

\* Mutant: the error handler retries with the session's stored request.
ConnErrorRetry(S, c, message, fails) ==
    LET s == S.conns[c].sock
        S0 == [S EXCEPT !.conns[c].erred = TRUE,
                        !.conns[c].st =
                            IF @ \in {"connecting", "authed"} THEN "broken" ELSE @]
        S1 == Emit(S0, s, "error", message)
        S2 == [S1 EXCEPT !.conn[s] = Null, !.stream[s] = Null]
    IN  StartConnection(S2, s, S.conns[c].cols, S.conns[c].rows, <<>>)

\* Mutant: the error is reported but the connection is not ended.
ConnErrorNoEnd(S, c, message, fails) ==
    LET s == S.conns[c].sock
        S0 == [S EXCEPT !.conns[c].erred = TRUE,
                        !.conns[c].st =
                            IF @ \in {"connecting", "authed"} THEN "broken" ELSE @]
        S1 == Emit(S0, s, "error", message)
    IN  [S1 EXCEPT !.conn[s] = Null, !.stream[s] = Null]

\* Lines 234-257.
ConnErrorBody(S, c, message, fails) ==
    LET s == S.conns[c].sock
        S0 == [S EXCEPT !.conns[c].erred = TRUE,
                        !.conns[c].st =
                            IF @ \in {"connecting", "authed"} THEN "broken" ELSE @]
        S1 == Emit(S0, s, "error", message)
        currentConn == S1.conn[s]
        currentStream == S1.stream[s]
        S2 == [S1 EXCEPT !.conn[s] = Null, !.stream[s] = Null]
        S3 == IF currentStream # Null THEN StreamEnd(S2, currentStream) ELSE S2
    IN  IF currentConn # Null THEN ConnEnd(S3, currentConn, fails) ELSE S3

ConnError(c, message, fails) ==
    /\ ~crashed
    /\ conns[c].st # "closed"
    /\ ~conns[c].erred
    /\ fails => (/\ conn[conns[c].sock] # Null
                 /\ \/ conn[conns[c].sock] = c
                    \/ MayThrow(Cur, conn[conns[c].sock]))
    /\ Commit(ConnErrorBody(Cur, c, message, fails), <<"connError", c, message>>)

\* ---- socket.on("disconnect") (lines 296-321) ----------------------------
\* The exit signal written to the remote shell.
ExitSignal == <<0>>

\* stream.write in a try block: a throw is caught and nothing is written.
TryWrite(S, k, data, fails) ==
    IF fails THEN Fx(S, <<"write", k, data, "threw">>)
    ELSE StreamWrite(S, k, data)

DisconnectBody(S, s, wfails, efails) ==
    LET currentStream == S.stream[s]
        currentConn == S.conn[s]
        S0 == [S EXCEPT !.connected[s] = FALSE]
        S1 == IF S0.pingTimer[s]
              THEN [S0 EXCEPT !.timerOn[s] = FALSE, !.pingTimer[s] = FALSE]
              ELSE S0
        S2 == [S1 EXCEPT !.stream[s] = Null, !.conn[s] = Null]
        S3 == IF currentStream # Null
              THEN TryWrite(S2, currentStream, ExitSignal, wfails)
              ELSE S2
    IN  IF currentConn # Null THEN ConnEnd(S3, currentConn, efails) ELSE S3

SocketDisconnect(s, wfails, efails) ==
    /\ ~crashed
    /\ connected[s]
    /\ wfails => (stream[s] # Null /\ MayThrow(Cur, chans[stream[s]].on))
    /\ efails => (conn[s] # Null /\ MayThrow(Cur, conn[s]))
    /\ Commit(DisconnectBody(Cur, s, wfails, efails), <<"disconnect", s>>)

\* ---- specification of one session ---------------------------------------
One == {"A"}

NPings == Sum([s \in Sockets |-> Len(out[s].ping)])

\* ---- specifications ---------------------------------------------------
\* The environment: requests of the clients in S and events of ssh2, bounded.
Connect(S, G, HC, limit) ==
    \E s \in S, g \in G, hc \in HC, f \in BOOLEAN :
        /\ IF MissingDetails(hc) \/ NoAuthentication(hc)
           THEN NRejected < MaxRejects
           ELSE Len(conns) < limit
        /\ ConnectToHost(s, g, hc, f)

Opening ==
    \/ \E c \in Conns : ConnReady(c)
    \/ \E c \in Conns : ShellOpen(c)

Closing(S) ==
    \/ \E c \in Conns, f \in BOOLEAN : StreamClose(c, f)
    \/ \E c \in Conns : ConnClose(c)
    \/ \E s \in S, wf \in BOOLEAN, ef \in BOOLEAN : SocketDisconnect(s, wf, ef)

Leaving(S) ==
    \E s \in S, wf \in BOOLEAN, ef \in BOOLEAN : SocketDisconnect(s, wf, ef)

Failing(M) ==
    \/ \E c \in Conns : ShellError(c)
    \/ \E c \in Conns : NetFail(c)
    \/ \E c \in Conns, m \in M, f \in BOOLEAN : ConnError(c, m, f)

Inbound ==
    \/ \E c \in Conns : NChunks < MaxChunks /\ StreamData(c)
    \/ ProcessBuffer

Outbound(S) ==
    \/ \E s \in S : NData < MaxData /\ SocketData(s)
    \/ \E f \in BOOLEAN : ProcessOutgoingBuffer(f)

Control(S, G) ==
    \/ \E c \in Conns, f \in BOOLEAN : StreamReady(c, f)
    \/ \E s \in S, g \in G, f \in BOOLEAN :
          NResize < MaxResize /\ SocketResize(s, g, f)
    \/ \E s \in S : NPings < MaxPings /\ PingTick(s)
    \/ \E c \in Conns : StreamError(c)

ValidHostConfigs ==
    {hc \in HostConfigs : ~MissingDetails(hc) /\ ~NoAuthentication(hc)}

Next ==
    \/ Connect(One, {<<80, 24>>}, HostConfigs, MaxConnects)
    \/ Opening
    \/ Closing(One)
    \/ Failing(Causes)
Spec == Init /\ [][Next]_vars

NextControl ==
    \/ Connect(One, Geometries, ValidHostConfigs, MaxConnects)
    \/ Opening
    \/ Closing(One)
    \/ Control(One, Geometries)
SpecControl == Init /\ [][NextControl]_vars

NextIn ==
    \/ Connect(One, Geometries, ValidHostConfigs, MaxConnects)
    \/ Opening
    \/ Closing(One)
    \/ Failing({"Timed out while waiting for handshake"})
    \/ Inbound
SpecIn == Init /\ [][NextIn]_vars

NextOut ==
    \/ Connect(One, {<<80, 24>>}, ValidHostConfigs, MaxConnects)
    \/ Opening
    \/ Closing(One)
    \/ Failing({"Timed out while waiting for handshake"})
    \/ Outbound(One)
SpecOut == Init /\ [][NextOut]_vars

NextLife ==
    \/ Connect(One, {<<80, 24>>}, ValidHostConfigs, MaxLifeConnects)
    \/ Opening
    \/ Closing(One)
SpecLife == Init /\ [][NextLife]_vars

NextPair ==
    \/ Connect(Sockets, {<<80, 24>>}, ValidHostConfigs, MaxConnects)
    \/ Opening
    \/ Leaving(Sockets)
    \/ Inbound
    \/ Outbound(Sockets)
SpecPair == Init /\ [][NextPair]_vars

\* ---- session states, from the references the session holds --------------
Idle(s) == conn[s] = Null /\ stream[s] = Null

\* Recognizers of the calls recorded in last.
IsEmit(e, s, type) == Len(e) = 4 /\ e[1] = "emit" /\ e[2] = s /\ e[3] = type
IsCall(e, name, target) == Len(e) >= 2 /\ e[1] = name /\ e[2] = target

\* ---- C1 -------------------------------------------------------------------
\* A hostConfig the relay must refuse, as the claim words it.
InvalidRequest(hc) ==
    \/ ~hc.present
    \/ hc.ip = "" \/ hc.user = "" \/ hc.port = 0
    \/ (hc.password = "" /\ hc.sshKey = "")

ConnectRequest(l, s) == l[1][1] = "connectToHost" /\ l[1][2] = s

\* C1: a connectToHost whose hostConfig is absent, lacks ip, user or port, or
\* carries neither password nor sshKey makes exactly one call, an `error`
\* emitted to that client, creates no SSH connection and leaves the session's
\* conn and stream references (and every connection and channel) as they were.
C1_RejectedSynchronously ==
    [][\A s \in Sockets :
          (ConnectRequest(last', s) /\ InvalidRequest(last'[1][4]))
          => /\ Len(last') = 2
             /\ IsEmit(last'[2], s, "error")
             /\ out'[s].error = Append(out[s].error, last'[2][4])
             /\ out'[s].data = out[s].data
             /\ conn' = conn
             /\ stream' = stream
             /\ conns' = conns
             /\ chans' = chans]_vars

\* A request without password and key was refused on an Idle session, and one
\* was refused on a session that holds a connection.
C1_Witness ==
    /\ ConnectRequest(last, "A")
    /\ last[1][4].present
    /\ last[1][4].password = "" /\ last[1][4].sshKey = ""
    /\ Len(out["A"].error) = 1
    /\ Len(conns) = 1
    /\ conn["A"] = 1

\* A channel is open on the session: its stream reference names an open
\* channel of a live connection.
ChannelOpen(s) ==
    /\ stream[s] # Null
    /\ chans[stream[s]].st = "open"
    /\ conns[chans[stream[s]].on].st = "authed"

\* ---- C9 -------------------------------------------------------------------
\* C9: when a connection whose handshake has not completed reports an error,
\* the handler emits `error` with the reported cause to the client, the
\* connection is no longer live (end() is called on it when the session
\* references it), and the session afterwards holds neither a connection nor
\* a stream reference.
C9_HandshakeFailureTearsDown ==
    [][\A c \in Conns :
          LET s == conns[c].sock IN
          (/\ conns[c].st \in {"connecting", "broken"} /\ chans[c].st = "none"
           /\ ~conns[c].erred /\ conns'[c].erred)
          => /\ Len(last') >= 2
             /\ last'[1][1] = "connError" /\ last'[1][2] = c
             /\ IsEmit(last'[2], s, "error") /\ last'[2][4] = last'[1][3]
             /\ \A i \in 3..Len(last') : last'[i][1] \in {"end", "streamEnd"}
             /\ connected[s] => out'[s].error = Append(out[s].error, last'[1][3])
             /\ conn[s] = c => IsCall(last'[Len(last')], "end", c)
             /\ conns'[c].st \in {"ended", "broken"}
             /\ conn'[s] = Null /\ stream'[s] = Null]_vars

\* A timed-out handshake was reported and the connection ended.
C9_Witness ==
    /\ Len(last) = 3
    /\ last[1] = <<"connError", 1, "Timed out while waiting for handshake">>
    /\ chans[1].st = "none"
    /\ last[3] = <<"end", 1, "ok">>
    /\ conns[1].st = "ended"
    /\ out["A"].error = <<"Timed out while waiting for handshake">>
    /\ Idle("A")

\* ---- C10 ------------------------------------------------------------------
\* C10: when the transport disconnects while a channel is open on the
\* session, the handler makes exactly two calls, in this order: one write of
\* the exit signal to the channel and then end() on the channel's connection
\* (also when the write throws); afterwards the session holds no connection,
\* no stream and no timer.
C10_DisconnectWritesExitThenEnds ==
    [][\A s \in Sockets :
          (connected[s] /\ ~connected'[s] /\ ChannelOpen(s))
          => /\ Len(last') = 3
             /\ IsCall(last'[2], "write", stream[s]) /\ last'[2][3] = ExitSignal
             /\ IsCall(last'[3], "end", chans[stream[s]].on)
             /\ conn'[s] = Null /\ stream'[s] = Null
             /\ ~pingTimer'[s] /\ ~timerOn'[s]]_vars

\* ---- C2 -------------------------------------------------------------------
\* The tokens of the data messages emitted to s that channel c produced.
RelayedFrom(c, s) ==
    SelectSeq(Flatten(out[s].data),
              LAMBDA b : \E i \in 1..Len(chans[c].produced) :
                            chans[c].produced[i] = <<b>>)

\* No connection of the session of c had a channel before c.
NoPriorChannel(c) ==
    \A k \in Conns :
        (k < c /\ conns[k].sock = conns[c].sock) => chans[k].st = "none"

\* C2: when the shell channel of a valid connectToHost opens on a session
\* that had no channel before, the session's stream reference names the open
\* channel (Streaming) and the first call of the step sets the channel's
\* window to the requested (cols, rows), nothing of the channel having been
\* relayed; and at every time a channel that produced or relayed a byte has
\* the requested geometry on its pseudo-terminal.
C2_GeometryBeforeFirstByte ==
    /\ [](\A c \in Conns :
            (chans[c].produced # <<>> \/ RelayedFrom(c, conns[c].sock) # <<>>)
            => chans[c].pty = <<conns[c].cols, conns[c].rows>>)
    /\ [][\A c \in Conns :
            LET s == conns[c].sock IN
            (chans[c].st = "pending" /\ chans'[c].st = "open" /\ NoPriorChannel(c))
            => /\ stream'[s] = c
               /\ ChannelOpen(s)'
               /\ Len(last') >= 2
               /\ last'[2] = <<"setWindow", c, conns[c].rows, conns[c].cols>>
               /\ chans'[c].pty = <<conns[c].cols, conns[c].rows>>
               /\ chans[c].produced = <<>> /\ chans'[c].produced = <<>>
               /\ out'[s].data = out[s].data]_vars

\* The first channel of a session requested as 120x40 relayed a byte to the
\* client with its pseudo-terminal at 120x40.
C2_Witness ==
    /\ conns # <<>>
    /\ conns[1].cols = 120 /\ conns[1].rows = 40
    /\ chans[1].pty = <<120, 40>>
    /\ ChannelOpen("A") /\ stream["A"] = 1
    /\ RelayedFrom(1, "A") # <<>>

\* ---- C3 -------------------------------------------------------------------
\* The tokens channel k received from its remote shell.
ProducedBy(k) == {chans[k].produced[i][1] : i \in 1..Len(chans[k].produced)}

\* The tokens the client of s sent as `data` payloads.
SentBy(s) == {recv[s].data[i][1] : i \in 1..Len(recv[s].data)}

\* The tokens written to channel k, the exit signal aside.
WrittenTo(k) ==
    LET w == Flatten(chans[k].written)
    IN  {w[i] : i \in 1..Len(w)} \ {ExitSignal[1]}

\* The tokens emitted to the client of s as `data`.
EmittedTo(s) ==
    LET e == Flatten(out[s].data) IN {e[i] : i \in 1..Len(e)}

\* The channels opened on connections of session s.
ChannelsOf(s) ==
    {k \in Conns : chans[k].on # Null /\ conns[chans[k].on].sock = s}

\* C3: for all sessions s and t, every byte emitted to the client of s was
\* produced by a channel of s and every byte written to a channel of s was
\* sent by the client of s; for s # t nothing produced by a channel of t is
\* emitted to s and nothing sent by the client of t is written to a channel
\* of s.
C3_SessionsIsolated ==
    \A s \in Sockets :
        /\ \A k \in ChannelsOf(s) : conns[k].sock = s
        /\ EmittedTo(s) \subseteq UNION {ProducedBy(k) : k \in ChannelsOf(s)}
        /\ \A k \in ChannelsOf(s) : WrittenTo(k) \subseteq SentBy(s)
        /\ \A t \in Sockets \ {s} :
              /\ \A k \in ChannelsOf(t) : EmittedTo(s) \cap ProducedBy(k) = {}
              /\ \A k \in ChannelsOf(s) : WrittenTo(k) \cap SentBy(t) = {}

\* Both sessions are streaming at once, each relayed a byte of its own shell
\* and each had client input written to its own channel.
C3_Witness ==
    /\ ChannelOpen("A") /\ ChannelOpen("B")
    /\ EmittedTo("A") # {} /\ EmittedTo("B") # {}
    /\ WrittenTo(stream["A"]) # {} /\ WrittenTo(stream["B"]) # {}

\* ---- C4 -------------------------------------------------------------------
\* The channels of session s that are open on a live connection.
ActiveChannels(s) ==
    {k \in ChannelsOf(s) :
        chans[k].st = "open" /\ conns[chans[k].on].st = "authed"}

\* C4: a session never has more than one active remote channel, and a
\* connectToHost received while the session holds a connection calls end()
\* on that connection (a throw ignored) before it creates and starts the new
\* one.
C4_AtMostOneActiveChannel ==
    /\ [](\A s \in Sockets : Cardinality(ActiveChannels(s)) <= 1)
    /\ [][\A s \in Sockets :
            (ConnectRequest(last', s) /\ Len(conns') = Len(conns) + 1
             /\ conn[s] # Null)
            => /\ Len(last') = 3
               /\ IsCall(last'[2], "end", conn[s])
               /\ last'[3] = <<"connect", Len(conns')>>
               /\ conn'[s] = Len(conns') /\ stream'[s] = Null]_vars

\* ---- C5 -------------------------------------------------------------------
\* The writes made to channel k, concatenated, without the exit signal.
ClientBytes(k) ==
    SelectSeq(Flatten(chans[k].written), LAMBDA b : b # ExitSignal[1])

\* The payloads are numbered in the order the relay received them, so a
\* strictly increasing sequence holds each at most once and in that order.
InReceiveOrder(w) == \A i, j \in 1..Len(w) : i < j => w[i] < w[j]

\* C5: for every channel, the writes made to it, concatenated, contain each
\* client `data` payload at most once and in the order the payloads were
\* received, whatever operations ran on the session.
C5_NoReorderNoDuplicate ==
    \A k \in Conns : InReceiveOrder(ClientBytes(k))

\* ---- C6 -------------------------------------------------------------------
\* C6: while the client transport is connected, for every channel the bytes
\* of it emitted to the client as `data`, followed by the chunks still
\* queued, are the chunks received from the remote shell in arrival order;
\* every flush leaves the queue empty, emits the whole queue as one message
\* when it was not empty and emits nothing when it was empty.
C6_RemoteToClientInOrder ==
    /\ [](\A c \in Conns :
            connected[conns[c].sock]
            => RelayedFrom(c, conns[c].sock) \o Flatten(chans[c].dataBuffer)
               = Flatten(chans[c].produced))
    /\ [][\A c \in Conns :
            LET s == conns[c].sock IN
            last'[1] = <<"processBuffer", c>>
            => /\ chans'[c].dataBuffer = <<>>
               /\ chans[c].dataBuffer = <<>>
                  => Len(last') = 1 /\ out'[s].data = out[s].data
               /\ chans[c].dataBuffer # <<>>
                  => /\ Len(last') = 2
                     /\ IsEmit(last'[2], s, "data")
                     /\ last'[2][4] = Flatten(chans[c].dataBuffer)
                     /\ connected[s] =>
                          out'[s].data = Append(out[s].data,
                                                Flatten(chans[c].dataBuffer))]_vars

\* One flush relayed two queued chunks as one message and the flush that was
\* scheduled for the second chunk found the queue empty.
C6_Witness ==
    /\ last = <<<<"processBuffer", 1>>>>
    /\ connected["A"]
    /\ chans[1].produced = <<<<1>>, <<2>>>>
    /\ out["A"].data = <<<<1, 2>>>>
    /\ chans[1].dataBuffer = <<>>

\* ---- C7 -------------------------------------------------------------------
\* The flushes scheduled for the listener of channel h and not yet run.
ScheduledFlushes(h) ==
    Len(SelectSeq(immq, LAMBDA e : e = <<"processOutgoingBuffer", h>>))

\* The client of s sent N >= 1 payloads while its channel was open and no
\* flush has run since: every listener still queues all of them and has
\* one flush scheduled per payload.
BurstUnflushed(s) ==
    /\ ChannelOpen(s)
    /\ recv[s].data # <<>>
    /\ \A i \in 1..Len(handlers[s]) :
          LET h == handlers[s][i] IN
          /\ chans[h].outgoingBuffer = recv[s].data
          /\ ScheduledFlushes(h) = Len(recv[s].data)

\* The step runs a flush of a listener of session s.
FlushOf(l, s) ==
    l[1][1] = "processOutgoingBuffer" /\ conns[l[1][2]].sock = s

\* C7: after a burst of N >= 1 payloads sent before any flush has run,
\* exactly one write reaches the remote channel and it holds the N payloads
\* concatenated in order: the first flush writes them all in one write, and
\* a flush that runs when the channel has already been written all of the
\* payloads writes nothing.
C7_BurstIsOneWrite ==
    [][\A s \in Sockets :
          (ChannelOpen(s) /\ ChannelOpen(s)' /\ FlushOf(last', s)
           /\ recv'[s].data = recv[s].data /\ recv[s].data # <<>>)
          => /\ BurstUnflushed(s)
                => /\ Len(last') = 2
                   /\ last'[2] = <<"write", stream[s], Flatten(recv[s].data)>>
             /\ ClientBytes(stream[s]) = Flatten(recv[s].data)
                => /\ Len(last') = 1
                   /\ chans'[stream[s]].written = chans[stream[s]].written]_vars

\* ---- C8 -------------------------------------------------------------------
\* Some call before position i of l is e.
Before(l, i, e) == \E j \in 2..(i - 1) : l[j] = e

\* C8: a resize request (cols, rows) received while a channel is open sets
\* the channel's pseudo-terminal and the stty size of the channel's
\* connection to (cols, rows) and is acknowledged; every `resize` message of
\* the step carries (cols, rows) and follows the setWindow and the stty exec
\* with these values. A request received when the session has no stream
\* makes no call.
C8_ResizeAppliedThenAcknowledged ==
    [][\A s \in Sockets :
          (Len(last') >= 1 /\ Len(last'[1]) = 3 /\ last'[1][1] = "resize"
           /\ last'[1][2] = s)
          => LET g == last'[1][3]
                 k == stream[s]
             IN  /\ ChannelOpen(s)
                    => /\ chans'[k].pty = g
                       /\ conns'[chans[k].on].stty = g
                       /\ \E i \in 2..Len(last') : IsEmit(last'[i], s, "resize")
                       /\ \A i \in 2..Len(last') :
                             IsEmit(last'[i], s, "resize")
                             => /\ last'[i][4] = g
                                /\ Before(last', i, <<"setWindow", k, g[2], g[1]>>)
                                /\ Before(last', i,
                                          <<"exec", chans[k].on, g[1], g[2]>>)
                 /\ stream[s] = Null
                    => Len(last') = 1 /\ out'[s].resize = out[s].resize]_vars

\* ---- C11 ------------------------------------------------------------------
\* The events that tear a session down.
TeardownTriggers == {"disconnect", "connClose", "streamClose", "connError"}

\* The session of the event recorded in l: the socket itself for a
\* disconnect, the socket of the connection for the events of ssh2.
SessionOf(l) == IF l[1][1] = "disconnect" THEN l[1][2] ELSE conns[l[1][2]].sock

\* Session s had a connection and a teardown handler has cleared its
\* references (only the teardown handlers set conn back to null).
TornDown(s) == Idle(s) /\ \E c \in Conns : conns[c].sock = s

\* The calls of l that write to a channel or end a connection or a stream.
TeardownCalls(l) ==
    {i \in 2..Len(l) : l[i][1] \in {"write", "end", "streamEnd"}}

\* C11: once a session has been torn down, a further teardown trigger of
\* that session (disconnect, connection close, stream close, connection
\* error) writes to no channel, ends no connection or stream and leaves the
\* session's connection, stream and timer as they were.
C11_TeardownIdempotent ==
    [][\A s \in Sockets :
          (TornDown(s) /\ last'[1][1] \in TeardownTriggers
           /\ SessionOf(last') = s)
          => /\ TeardownCalls(last') = {}
             /\ conn'[s] = conn[s] /\ stream'[s] = stream[s]
             /\ pingTimer'[s] = pingTimer[s] /\ timerOn'[s] = timerOn[s]]_vars

\* ---- C12 ------------------------------------------------------------------
\* The terminal messages sent to the client of s. The relay has no emit of
\* `disconnected`, so these are its `error` messages.
TerminalMessages(s) == out[s].error

\* C12: when the first connection of a session, none of whose requests was
\* rejected, is ended by a connection error or by the remote side closing
\* the channel while the transport is connected, the client has been sent
\* exactly one terminal message when the session holds no reference any more.
C12_ExactlyOneTerminalMessage ==
    [][\A s \in Sockets :
          (/\ connected[s] /\ Len(conns) = 1 /\ recv[s].rejected = 0
           /\ ~Idle(s) /\ Idle(s)'
           /\ last'[1][1] \in {"streamClose", "connError"})
          => Len(TerminalMessages(s)') = 1]_vars

\* ---- C13 ------------------------------------------------------------------
\* The handler recorded in l emitted `error` to the client of s.
EmitsError(l, s) == \E i \in 2..Len(l) : IsEmit(l[i], s, "error")

\* C13: whenever a handler of an ssh2 event emits `error` to a client, the
\* transport stays connected and the session is ended: afterwards it holds
\* neither a connection nor a stream, the connection it held is not live and
\* the channel it held is not open.
C13_ErrorEndsSession ==
    [][\A s \in Sockets :
          (connected[s] /\ EmitsError(last', s)
           /\ last'[1][1] # "connectToHost")
          => /\ connected'[s]
             /\ Idle(s)'
             /\ conn[s] # Null
                => conns'[conn[s]].st \notin {"connecting", "authed"}
             /\ stream[s] # Null => chans'[stream[s]].st # "open"]_vars

\* ---- C14 ------------------------------------------------------------------
\* The step is the disconnect of transport s or the close event of the
\* channel the session of s streams on.
ClosesTransportOrChannel(l, s) ==
    \/ l[1] = <<"disconnect", s>>
    \/ /\ l[1][1] = "streamClose"
       /\ conns[l[1][2]].sock = s
       /\ stream[s] = l[1][2]

\* C14: after the client transport or the remote channel of a session has
\* closed, the session holds no heartbeat timer and none remains scheduled.
C14_TimerCancelledOnClose ==
    [][\A s \in Sockets :
          ClosesTransportOrChannel(last', s)
          => ~pingTimer'[s] /\ ~timerOn'[s]]_vars

\* ---- the client's heartbeat (SSHTerminal.jsx, lines 650-675) ------------
\* Times are in milliseconds; the clock advances in steps of Second.
Second == 1000
PingEvery == 3000      \* setInterval(..., 3000)
PongTimeout == 15000   \* now - lastPongTime > 15000
MaxTicks == 12         \* ticks of the client's interval that are explored

\* let lastPongTime = Date.now(); the socket is connected; the interval is
\* set. due: the interval's callback is to run at the present time. cycles:
\* the times at which the transport was cycled. calls: the calls of the
\* handler that ran last.
HeartbeatInit ==
    [started |-> TRUE, now |-> 0, lastPongTime |-> 0, connected |-> TRUE,
     connecting |-> FALSE, due |-> FALSE, cycles |-> <<>>, calls |-> <<>>]

\* The clock advances; at the multiples of 3000 ms the interval is due.
HeartbeatAdvance ==
    /\ heartbeat.started
    /\ ~heartbeat.due
    /\ heartbeat.now + Second <= MaxTicks * PingEvery
    /\ heartbeat' = [heartbeat EXCEPT
                        !.now = @ + Second,
                        !.due = ((heartbeat.now + Second) % PingEvery = 0),
                        !.calls = <<"time">>]
    /\ UNCHANGED <<relayVars, observer, codec, store, registry, calls, loop, mount>>

\* Mutant: the transport is cycled without lastPongTime being set to now.
PingIntervalNoReset(h) ==
    IF h.connected
    THEN IF h.now - h.lastPongTime > PongTimeout
         THEN [h EXCEPT !.connected = FALSE, !.connecting = TRUE,
                        !.cycles = Append(@, h.now),
                        !.calls = <<"interval", "disconnect", "connect",
                                    "emit ping">>]
         ELSE [h EXCEPT !.calls = <<"interval", "emit ping">>]
    ELSE [h EXCEPT !.calls = <<"interval">>]

\* Lines 651-664: the callback of the interval.
PingInterval(h) ==
    IF h.connected
    THEN IF h.now - h.lastPongTime > PongTimeout
         THEN [h EXCEPT !.connected = FALSE, !.connecting = TRUE,
                        !.cycles = Append(@, h.now),
                        !.lastPongTime = h.now,
                        !.calls = <<"interval", "disconnect", "connect",
                                    "emit ping">>]
         ELSE [h EXCEPT !.calls = <<"interval", "emit ping">>]
    ELSE [h EXCEPT !.calls = <<"interval">>]

HeartbeatInterval ==
    /\ heartbeat.started
    /\ heartbeat.due
    /\ heartbeat' = [PingInterval(heartbeat) EXCEPT !.due = FALSE]
    /\ UNCHANGED <<relayVars, observer, codec, store, registry, calls, loop, mount>>

\* Lines 666-668: a `pong` arrives on the connected transport.
HeartbeatPong ==
    /\ heartbeat.started
    /\ heartbeat.connected
    /\ heartbeat' = [heartbeat EXCEPT !.lastPongTime = heartbeat.now,
                                      !.calls = <<"pong">>]
    /\ UNCHANGED <<relayVars, observer, codec, store, registry, calls, loop, mount>>

\* Lines 670-675: a `ping` of the relay arrives and is answered.
HeartbeatPing ==
    /\ heartbeat.started
    /\ heartbeat.connected
    /\ heartbeat' = [heartbeat EXCEPT !.lastPongTime = heartbeat.now,
                                      !.calls = <<"ping", "emit pong">>]
    /\ UNCHANGED <<relayVars, observer, codec, store, registry, calls, loop, mount>>

\* The `connect` event that follows socket.connect() or a reconnection.
HeartbeatConnected ==
    /\ heartbeat.started
    /\ heartbeat.connecting
    /\ heartbeat' = [heartbeat EXCEPT !.connected = TRUE, !.connecting = FALSE,
                                      !.calls = <<"connect event">>]
    /\ UNCHANGED <<relayVars, observer, codec, store, registry, calls, loop, mount>>

\* The transport is lost; socket.io reconnects by itself (reconnection: true).
HeartbeatLost ==
    /\ heartbeat.started
    /\ heartbeat.connected
    /\ heartbeat' = [heartbeat EXCEPT !.connected = FALSE, !.connecting = TRUE,
                                      !.calls = <<"disconnect event">>]
    /\ UNCHANGED <<relayVars, observer, codec, store, registry, calls, loop, mount>>

InitHeartbeat ==
    /\ InitRelay
    /\ heartbeat = HeartbeatInit
    /\ observer = NotStarted
    /\ codec = NotStarted
    /\ store = NotStarted
    /\ registry = NotStarted
    /\ calls = NotStarted
    /\ loop = NotStarted
    /\ mount = NotStarted

NextHeartbeat ==
    \/ HeartbeatAdvance
    \/ HeartbeatInterval
    \/ HeartbeatPong
    \/ HeartbeatPing
    \/ HeartbeatConnected
    \/ HeartbeatLost
SpecHeartbeat == InitHeartbeat /\ [][NextHeartbeat]_vars

\* ---- C15 ------------------------------------------------------------------
\* C15: when the interval's callback runs on a connected transport more than
\* 15000 ms after the last pong or relay ping, the transport is cycled
\* (disconnect, then connect) exactly once; no other step cycles it; and two
\* cycles are always more than 15000 ms apart, so one missed-pong window
\* never triggers a second cycle.
C15_CycledOncePerWindow ==
    /\ [](\A i \in 1..(Len(heartbeat.cycles) - 1) :
            heartbeat.cycles[i + 1] - heartbeat.cycles[i] > PongTimeout)
    /\ [][IF /\ heartbeat'.calls[1] = "interval" /\ heartbeat.connected
             /\ heartbeat.now - heartbeat.lastPongTime > PongTimeout
          THEN /\ heartbeat'.cycles = Append(heartbeat.cycles, heartbeat.now)
               /\ SubSeq(heartbeat'.calls, 1, 3)
                    = <<"interval", "disconnect", "connect">>
               /\ ~heartbeat'.connected /\ heartbeat'.connecting
          ELSE heartbeat'.cycles = heartbeat.cycles]_vars

\* The transport was cycled at 18000 ms, reconnected, and with still no pong
\* cycled a second time at 36000 ms.
C15_Witness ==
    /\ heartbeat.started
    /\ heartbeat.cycles = <<18000, 36000>>
    /\ heartbeat.calls = <<"interval", "disconnect", "connect", "emit ping">>

\* ---- C16 ------------------------------------------------------------------
\* The connect() calls among the calls recorded in l.
ConnectCalls(l) == {i \in 2..Len(l) : l[i][1] = "connect"}

\* C16: an SSH connection is created and started only by the handler of a
\* client's valid connectToHost, one per request and for the requesting
\* session; the handlers of ssh2's events (error, close, stream close, shell
\* error) and of the disconnect never start one.
C16_NoRetryByRelay ==
    [][(Len(conns') # Len(conns) \/ ConnectCalls(last') # {})
       => /\ last'[1][1] = "connectToHost"
          /\ ~InvalidRequest(last'[1][4])
          /\ Len(conns') = Len(conns) + 1
          /\ conns'[Len(conns')].sock = last'[1][2]
          /\ Cardinality(ConnectCalls(last')) = 1]_vars

\* After the first connection failed with an error the session is connected
\* again, by a connectToHost of the client.
C16_Witness ==
    /\ Len(conns) = 2
    /\ conns[1].erred /\ conns[1].sock = "A"
    /\ last[1][1] = "connectToHost"
    /\ conn["A"] = 2 /\ conns[2].st = "connecting"
    /\ out["A"].error # <<>>

\* ---- the clients' resize observers ---------------------------------------
\* "jsx": hosts/ssh/SSHTerminal.jsx (resizeTerminal, lines 375-397, and the
\* ResizeObserver effect, lines 751-778). "tsx": SSH/Terminal/SSHTerminal.tsx
\* (resizeObserver, lines 75-85).
Components == {"jsx", "tsx"}

\* What fit() measures for the sizes a container may take: <<cols, rows>>.
Measured == {<<80, 24>>, <<120, 40>>, <<8, 3>>}

\* Times are in milliseconds; the clock advances in steps of Step.
Step == 50
DebounceWindow == 100     \* setTimeout(..., 100)
MaxObserved == 3          \* ResizeObserver callbacks, both components
MaxObserverTime == 400    \* the time explored

\* size: what fit() measures now. events: the times of the ResizeObserver
\* callbacks. sent: the resize messages sent, <<time, cols, rows>>.
\* resizeTimeout: the pending timeout of the .tsx component and its deadline.
ObserverInit ==
    [started |-> TRUE, now |-> 0,
     size |-> [c \in Components |-> <<80, 24>>],
     events |-> [c \in Components |-> <<>>],
     sent |-> [c \in Components |-> <<>>],
     resizeTimeout |-> [pending |-> FALSE, deadline |-> 0]]

NObserved == Sum([c \in Components |-> Len(observer.events[c])])

\* A timeout whose deadline is reached runs before the clock advances.
TimeoutDue(o) == o.resizeTimeout.pending /\ o.resizeTimeout.deadline <= o.now

ObserverAdvance ==
    /\ observer.started
    /\ ~TimeoutDue(observer)
    /\ observer.now + Step <= MaxObserverTime
    /\ observer' = [observer EXCEPT !.now = @ + Step]
    /\ UNCHANGED <<relayVars, heartbeat, codec, store, registry, calls, loop, mount>>

\* SSHTerminal.jsx, lines 375-397: resizeTerminal() on a connected socket.
ResizeTerminal(o) ==
    LET cols == o.size["jsx"][1]
        rows == o.size["jsx"][2]
        finalCols == IF cols > 10 THEN cols ELSE 10
        finalRows == IF rows > 5 THEN rows ELSE 5
    IN  [o EXCEPT !.sent["jsx"] = Append(@, <<o.now, finalCols, finalRows>>)]

\* SSHTerminal.jsx, lines 758-762: the ResizeObserver callback.
ObservedJsx(g) ==
    /\ observer.started
    /\ observer' = ResizeTerminal(
                      [observer EXCEPT !.size["jsx"] = g,
                                       !.events["jsx"] = Append(@, observer.now)])
    /\ UNCHANGED <<relayVars, heartbeat, codec, store, registry, calls, loop, mount>>

\* SSHTerminal.tsx, lines 75-82: clearTimeout, then setTimeout(..., 100).
ObservedTsx(g) ==
    /\ observer.started
    /\ ~TimeoutDue(observer)
    /\ observer' = [observer EXCEPT
                       !.size["tsx"] = g,
                       !.events["tsx"] = Append(@, observer.now),
                       !.resizeTimeout =
                           [pending |-> TRUE,
                            deadline |-> observer.now + DebounceWindow]]
    /\ UNCHANGED <<relayVars, heartbeat, codec, store, registry, calls, loop, mount>>

\* SSHTerminal.tsx, lines 77-82: the timeout fits and sends cols + 1, rows.
ResizeTimeoutFires ==
    /\ observer.started
    /\ TimeoutDue(observer)
    /\ LET cols == observer.size["tsx"][1] + 1
           rows == observer.size["tsx"][2]
       IN  observer' = [observer EXCEPT
                           !.sent["tsx"] = Append(@, <<observer.now, cols, rows>>),
                           !.resizeTimeout.pending = FALSE]
    /\ UNCHANGED <<relayVars, heartbeat, codec, store, registry, calls, loop, mount>>

InitObserver ==
    /\ InitRelay
    /\ heartbeat = NotStarted
    /\ observer = ObserverInit
    /\ codec = NotStarted
    /\ store = NotStarted
    /\ registry = NotStarted
    /\ calls = NotStarted
    /\ loop = NotStarted
    /\ mount = NotStarted

NextObserver ==
    \/ ObserverAdvance
    \/ \E g \in Measured : NObserved < MaxObserved /\ ObservedJsx(g)
    \/ \E g \in Measured : NObserved < MaxObserved /\ ObservedTsx(g)
    \/ ResizeTimeoutFires
SpecObserver == InitObserver /\ [][NextObserver]_vars

\* ---- C17 ------------------------------------------------------------------
\* C17: for each terminal component, a ResizeObserver event sends no resize
\* message, and a resize message is sent only when at least 100 ms have
\* passed since the last event, once for that event, carrying the geometry
\* measured after it.
C17_ResizeDebounced ==
    [][\A c \in Components :
          /\ observer'.events[c] # observer.events[c]
             => observer'.sent[c] = observer.sent[c]
          /\ observer'.sent[c] # observer.sent[c]
             => /\ observer.events[c] # <<>>
                /\ Len(observer'.sent[c]) = Len(observer.sent[c]) + 1
                /\ LET m == observer'.sent[c][Len(observer'.sent[c])]
                       e == observer.events[c][Len(observer.events[c])]
                   IN  /\ m[1] - e >= DebounceWindow
                       /\ <<m[2], m[3]>> = observer.size[c]
                       /\ \A i \in 1..Len(observer.sent[c]) :
                             observer.sent[c][i][1] <= e]_vars

\* ---- the store's codec: encryptData / decryptData -----------------------
\* JavaScript values: undefined, null, strings, numbers and plain objects
\* (props maps the object's own properties to their values).
JsUndefined == [type |-> "undefined"]
JsNull == [type |-> "null"]
Str(s) == [type |-> "string", chars |-> s]
Num(n) == [type |-> "number", number |-> n]
Obj(f) == [type |-> "object", props |-> f]

\* The outcome of an expression that throws.
Thrown == [type |-> "thrown"]

\* Mutant: properties whose value is null are left out as well.
JSONstringifyNoNull(value) ==
    IF value.type = "undefined" THEN JsUndefined
    ELSE IF value.type = "object"
         THEN [type |-> "json",
               value |-> Obj([k \in {p \in DOMAIN value.props :
                                        value.props[p].type \notin {"undefined", "null"}}
                              |-> value.props[k]])]
         ELSE [type |-> "json", value |-> value]

\* JSON.stringify(value): undefined has no text; the text of an object
\* leaves out the properties whose value is undefined.
JSONstringify(value) ==
    IF value.type = "undefined" THEN JsUndefined
    ELSE IF value.type = "object"
         THEN [type |-> "json",
               value |-> Obj([k \in {p \in DOMAIN value.props :
                                        value.props[p].type # "undefined"}
                              |-> value.props[k]])]
         ELSE [type |-> "json", value |-> value]

\* JSON.parse(text): the value a JSON text denotes; anything else throws.
JSONparse(text) ==
    IF text.type = "json" THEN text.value ELSE Thrown

\* process.env.SALT || 'default_salt'
Salt == "default_salt"

\* crypto.scryptSync(`${userId}-${sessionToken}`, salt, 32): the key is
\* determined by the password string and the salt, and by nothing else.
getEncryptionKeyNoToken(userId, sessionToken) ==
    [password |-> userId \o "-", salt |-> Salt]

getEncryptionKey(userId, sessionToken) ==
    [password |-> userId \o "-" \o sessionToken, salt |-> Salt]

\* aes-256-gcm: the ciphertext of a text under a key and an iv, its
\* authentication tag, and what decipher.update() makes of a ciphertext
\* (the text under the same key and iv, unreadable bytes otherwise).
Cipher(key, iv, text) == [key |-> key, iv |-> iv, text |-> text]
AuthTag(key, iv, content) == [key |-> key, iv |-> iv, content |-> content]
Garbage == [type |-> "garbage"]
Decipher(key, iv, content) ==
    IF content.key = key /\ content.iv = iv THEN content.text ELSE Garbage

\* buffer.toString('hex') and Buffer.from(hex, 'hex'); Buffer.from throws
\* on undefined.
ToHex(buffer) == [hex |-> buffer]
IsHex(h) == "hex" \in DOMAIN h
BufferFrom(h) == IF IsHex(h) THEN h.hex ELSE Thrown

\* `${a}:${b}:${c}` and string.split(':'); destructuring gives undefined
\* for a part that is not there.
Template(parts) == [type |-> "string", parts |-> parts]
Split(string) == string.parts
Part(parts, i) == IF i <= Len(parts) THEN parts[i] ELSE JsUndefined

\* encryptData(data, userId, sessionToken); iv is the value of
\* crypto.randomBytes(16).  cipher.update(undefined) throws, which the
\* catch turns into null.
encryptData(data, userId, sessionToken, iv) ==
    LET key == getEncryptionKey(userId, sessionToken)
        text == JSONstringify(data)
    IN  IF text.type = "undefined" THEN JsNull
        ELSE LET encrypted == Cipher(key, iv, text)
             IN  Template(<<ToHex(iv), ToHex(encrypted),
                        ToHex(AuthTag(key, iv, encrypted))>>)

\* Mutant: decipher.final() is not called, the tag is never verified.
decryptTryNoFinal(encryptedData, userId, sessionToken) ==
    IF encryptedData.type # "string" THEN Thrown
    ELSE LET parts == Split(encryptedData)
             ivHex == Part(parts, 1)
             contentHex == Part(parts, 2)
             authTagHex == Part(parts, 3)
         IN  IF ~IsHex(ivHex) \/ ~IsHex(contentHex) \/ ~IsHex(authTagHex)
             THEN Thrown
             ELSE JSONparse(Decipher(getEncryptionKey(userId, sessionToken),
                                     BufferFrom(ivHex), BufferFrom(contentHex)))

\* The try block of decryptData: split and destructure, decode the three
\* parts, decipher.update(content), then decipher.final(), which throws
\* unless the tag is the tag of this content under this key and iv, and
\* only then JSON.parse.
decryptTry(encryptedData, userId, sessionToken) ==
    IF encryptedData.type # "string" THEN Thrown
    ELSE LET parts == Split(encryptedData)
             ivHex == Part(parts, 1)
             contentHex == Part(parts, 2)
             authTagHex == Part(parts, 3)
         IN  IF ~IsHex(ivHex) \/ ~IsHex(contentHex) \/ ~IsHex(authTagHex)
             THEN Thrown
             ELSE LET iv == BufferFrom(ivHex)
                      content == BufferFrom(contentHex)
                      authTag == BufferFrom(authTagHex)
                      key == getEncryptionKey(userId, sessionToken)
                      updated == Decipher(key, iv, content)
                  IN  IF authTag # AuthTag(key, iv, content) THEN Thrown
                      ELSE JSONparse(updated)

\* decryptData(encryptedData, userId, sessionToken): the catch logs and
\* returns null.
decryptData(encryptedData, userId, sessionToken) ==
    LET r == decryptTry(encryptedData, userId, sessionToken)
    IN  IF r.type = "thrown" THEN JsNull ELSE r

\* The inputs of one run.  Plaintexts are the cleanConfig objects that
\* saveHostConfig and editHost encrypt: name, password and rsaKey may be
\* undefined, folder may be null.  Owner ids and session tokens are
\* hexadecimal strings.
Plaintexts ==
    {Obj([name |-> n, folder |-> f, ip |-> Str("10.0.0.5"),
          user |-> Str("alice"), port |-> Num(22), password |-> pw,
          rsaKey |-> rk]) :
        n \in {JsUndefined, Str("prod-db")}, f \in {JsNull, Str("prod")},
        pw \in {JsUndefined, Str("s3cr3t")}, rk \in {JsUndefined, Str("key")}}
UserIds == {"65a1", "65a2"}
SessionTokens == {"c3d4", "e5f6"}
DerivationInputs == UserIds \X SessionTokens
IVs == {"iv1", "iv2"}

\* What can happen to a stored record before it is read: another tag, a
\* changed ciphertext, a changed iv, a missing tag, a missing ciphertext
\* and tag, the empty string, and no string at all.
Damages == {"tag", "content", "iv", "noTag", "noContent", "empty", "null"}
Damage(record, kind) ==
    LET parts == Split(record)
        iv == parts[1].hex
        content == parts[2].hex
        tag == parts[3].hex
        other == Cipher(content.key, content.iv,
                        [type |-> "json", value |-> Obj([ip |-> Str("10.6.6.6")])])
    IN  CASE kind = "tag" ->
               Template(<<parts[1], parts[2], ToHex(AuthTag(tag.key, tag.iv, other))>>)
          [] kind = "content" -> Template(<<parts[1], ToHex(other), parts[3]>>)
          [] kind = "iv" ->
               Template(<<ToHex(CHOOSE v \in IVs : v # iv), parts[2], parts[3]>>)
          [] kind = "noTag" -> Template(<<parts[1], parts[2]>>)
          [] kind = "noContent" -> Template(<<parts[1]>>)
          [] kind = "empty" -> Template(<<ToHex("")>>)
          [] kind = "null" -> JsNull

CodecInit ==
    [started |-> TRUE, stage |-> "new", data |-> JsUndefined,
     K1 |-> <<"", "">>, record |-> JsUndefined, damage |-> "none",
     K2 |-> <<"", "">>, outcome |-> JsUndefined]

\* saveHostConfig / editHost: a configuration is encrypted and stored.
EncryptData(P, K, iv) ==
    /\ codec.started
    /\ codec.stage = "new"
    /\ codec' = [codec EXCEPT !.stage = "stored", !.data = P, !.K1 = K,
                              !.record = encryptData(P, K[1], K[2], iv)]
    /\ UNCHANGED <<relayVars, heartbeat, observer, store, registry, calls, loop, mount>>

\* The stored record is damaged.
RecordDamaged(kind) ==
    /\ codec.started
    /\ codec.stage = "stored"
    /\ codec.damage = "none"
    /\ codec' = [codec EXCEPT !.damage = kind,
                              !.record = Damage(codec.record, kind)]
    /\ UNCHANGED <<relayVars, heartbeat, observer, store, registry, calls, loop, mount>>

\* getHosts: the stored record is decrypted with the request's input.
DecryptData(K) ==
    /\ codec.started
    /\ codec.stage = "stored"
    /\ codec' = [codec EXCEPT !.stage = "read", !.K2 = K,
                              !.outcome = decryptData(codec.record, K[1], K[2])]
    /\ UNCHANGED <<relayVars, heartbeat, observer, store, registry, calls, loop, mount>>

InitCodec ==
    /\ InitRelay
    /\ heartbeat = NotStarted
    /\ observer = NotStarted
    /\ codec = CodecInit
    /\ store = NotStarted
    /\ registry = NotStarted
    /\ calls = NotStarted
    /\ loop = NotStarted
    /\ mount = NotStarted

NextCodec ==
    \/ \E P \in Plaintexts, K \in DerivationInputs, iv \in IVs :
          EncryptData(P, K, iv)
    \/ \E kind \in Damages : RecordDamaged(kind)
    \/ \E K \in DerivationInputs : DecryptData(K)
SpecCodec == InitCodec /\ [][NextCodec]_vars

\* A record read back undamaged with the input it was written with.
ReadBack ==
    /\ codec.started
    /\ codec.stage = "read"
    /\ codec.damage = "none"
    /\ codec.K2 = codec.K1

\* ---- C18 ------------------------------------------------------------------
\* C18 (as stated): decrypting an encrypted plaintext with the derivation
\* input it was encrypted with returns a value equal to the plaintext.
C18_RoundTripEqual ==
    ReadBack => codec.outcome = codec.data

\* C18: decrypting an encrypted configuration with the derivation input it
\* was encrypted with returns an object that has exactly the properties of
\* the plaintext whose value is not undefined, each with the plaintext's
\* value; it is equal to the plaintext when no property is undefined.
C18_RoundTripJson ==
    ReadBack =>
        /\ codec.outcome.type = "object"
        /\ DOMAIN codec.outcome.props =
              {p \in DOMAIN codec.data.props :
                  codec.data.props[p].type # "undefined"}
        /\ \A p \in DOMAIN codec.outcome.props :
              codec.outcome.props[p] = codec.data.props[p]
        /\ (\A p \in DOMAIN codec.data.props :
               codec.data.props[p].type # "undefined")
              => codec.outcome = codec.data

C18_Witness ==
    /\ ReadBack
    /\ codec.data.props.password = Str("s3cr3t")
    /\ codec.data.props.rsaKey = JsUndefined
    /\ codec.outcome.type = "object"
    /\ "rsaKey" \notin DOMAIN codec.outcome.props
    /\ codec.outcome.props.password = Str("s3cr3t")

\* ---- C19 ------------------------------------------------------------------
\* C19: decrypting an undamaged record with a derivation input that differs
\* from the one it was encrypted with, in the owner or in the token, returns
\* the failure outcome null and never a plaintext.
C19_OtherInputFails ==
    (/\ codec.started
     /\ codec.stage = "read"
     /\ codec.damage = "none"
     /\ codec.K2 # codec.K1)
        => codec.outcome = JsNull

C19_Witness ==
    /\ codec.started
    /\ codec.stage = "read"
    /\ codec.damage = "none"
    /\ codec.K2[1] = codec.K1[1]
    /\ codec.K2[2] # codec.K1[2]
    /\ codec.outcome = JsNull

\* ---- C20 ------------------------------------------------------------------
\* C20: reading a damaged record (other tag, changed ciphertext or iv,
\* missing parts, no string) or reading with another derivation input
\* returns null; no read throws; and null is returned by no successful read,
\* whose outcome is an object.
C20_FailsClosed ==
    (codec.started /\ codec.stage = "read") =>
        /\ codec.outcome.type # "thrown"
        /\ (codec.damage # "none" \/ codec.K2 # codec.K1)
              => codec.outcome = JsNull
        /\ (codec.damage = "none" /\ codec.K2 = codec.K1)
              => codec.outcome.type = "object"

C20_Witness ==
    /\ codec.started
    /\ codec.stage = "read"
    /\ codec.damage = "tag"
    /\ codec.K2 = codec.K1
    /\ codec.outcome = JsNull

\* ---- the store: users and hosts collections, database.cjs handlers ------
\* Bounds of the store's runs.
MaxUsers == 2
MaxHosts == 2
MaxSessions == 2
MaxEdits == 1
MaxUserHosts == 1

Usernames == <<"alice", "bob">>
UserIdList == <<"65a1", "65a2">>
HostIds == {<<"host", n>> : n \in 1..MaxHosts}

\* value.trim() and value.toLowerCase() on the strings of these runs.
Trim(chars) ==
    CASE chars = " prod" -> "prod"
      [] chars = " s3cr3t" -> "s3cr3t"
      [] OTHER -> chars
ToLowerCase(chars) == IF chars = "Prod" THEN "prod" ELSE chars

\* JavaScript truthiness, as in `a || b` and `if (!a)`.
Truthy(value) ==
    CASE value.type \in {"undefined", "null"} -> FALSE
      [] value.type = "string" -> value.chars # ""
      [] value.type = "number" -> value.number # 0
      [] OTHER -> TRUE

\* The hostConfig objects that clients send.
HostInput(name, ip) ==
    [name |-> name, folder |-> JsUndefined, ip |-> ip, user |-> Str("alice"),
     port |-> JsUndefined, password |-> Str("s3cr3t"), rsaKey |-> JsUndefined]
HostInputs ==
    {HostInput(JsUndefined, Str("10.0.0.5")), HostInput(Str("prod"), Str("10.0.0.5")),
     HostInput(Str("Prod"), Str("10.0.0.6")), HostInput(Str(" prod"), Str("10.0.0.6")),
     HostInput(Str("prod"), JsUndefined)}

\* The oldHostConfig objects of editHost, of which only the ip is read.
OldHostInputs == {[ip |-> ip] : ip \in {Str("10.0.0.5"), Str("10.0.0.6")}}

\* value?.trim()
OptionalTrim(value) ==
    IF value.type = "string" THEN Str(Trim(value.chars)) ELSE JsUndefined

\* const cleanConfig = { ... } of saveHostConfig and editHost.
CleanConfig(hostConfig) ==
    LET folder == OptionalTrim(hostConfig.folder)
        password == OptionalTrim(hostConfig.password)
        rsaKey == OptionalTrim(hostConfig.rsaKey)
    IN  Obj([name |-> OptionalTrim(hostConfig.name),
             folder |-> IF Truthy(folder) THEN folder ELSE JsNull,
             ip |-> Str(Trim(hostConfig.ip.chars)),
             user |-> Str(Trim(hostConfig.user.chars)),
             port |-> IF Truthy(hostConfig.port) THEN hostConfig.port ELSE Num(22),
             password |-> IF Truthy(password) THEN password ELSE JsUndefined,
             rsaKey |-> IF Truthy(rsaKey) THEN rsaKey ELSE JsUndefined])

\* Before the first request: no user, no host.  client[u] is what the web
\* client of user u holds (currentUser / localStorage) and how many sessions
\* it has begun; savedIn of a host is the owner's session in which it was
\* saved (bookkeeping, not a stored field).
StoreInit ==
    [started |-> TRUE, users |-> <<>>, hosts |-> <<>>,
     made |-> [users |-> 0, hosts |-> 0, ivs |-> 0],
     client |-> [u \in UserIds |-> [loggedIn |-> FALSE, sessions |-> 0]],
     op |-> <<"listen">>, reply |-> [none |-> TRUE],
     decrypted |-> {}, encrypted |-> {}]

\* A handler begins: nothing decrypted or encrypted yet.
Request(S, op) == [S EXCEPT !.op = op, !.decrypted = {}, !.encrypted = {}]
Reply(S, reply) == [S EXCEPT !.reply = reply]
Failure(S, message) == Reply(S, [error |-> message])

\* Model.findOne / find / deleteOne on a collection.
Select(collection, Matches(_)) == SelectSeq(collection, Matches)
InvalidSession(S, userId, sessionToken) ==
    Select(S.users, LAMBDA u : u.id = userId /\ u.sessionToken = sessionToken) = <<>>

\* socket.on('createUser'): sessionToken is crypto.randomBytes(64) in hex.
createUser(S0, username, password, sessionToken) ==
    LET S == Request(S0, <<"createUser", username>>)
    IN  IF Select(S.users, LAMBDA u : u.username = username) # <<>>
        THEN Failure(S, "Username already exists")
        ELSE LET id == UserIdList[S.made.users + 1]
                 user == [id |-> id, username |-> username,
                          password |-> [bcrypt |-> password],
                          sessionToken |-> sessionToken]
             IN  [S EXCEPT !.users = Append(@, user),
                           !.made.users = @ + 1,
                           !.client[id] = [loggedIn |-> TRUE, sessions |-> 1],
                           !.reply = [success |-> TRUE,
                                      user |-> [id |-> id, username |-> username,
                                                sessionToken |-> sessionToken]]]

\* Mutant: a login replaces the stored token by another one.
loginUserRotating(S0, username, password) ==
    LET S == Request(S0, <<"loginUser", username>>)
        found == Select(S.users, LAMBDA u : u.username = username)
    IN  IF found = <<>> \/ found[1].password # [bcrypt |-> password]
        THEN Failure(S, "Invalid credentials")
        ELSE LET user == found[1]
                 token == CHOOSE t \in SessionTokens : t # user.sessionToken
             IN  [S EXCEPT !.users = [j \in 1..Len(@) |->
                                        IF @[j].id = user.id
                                        THEN [@[j] EXCEPT !.sessionToken = token]
                                        ELSE @[j]],
                           !.client[user.id] =
                               [loggedIn |-> TRUE, sessions |-> @.sessions + 1],
                           !.reply = [success |-> TRUE,
                                      user |-> [id |-> user.id,
                                                username |-> user.username,
                                                sessionToken |-> token]]]

\* socket.on('loginUser') with a password, then loginUser of User.jsx:
\* the client keeps the token of the reply.
loginUser(S0, username, password) ==
    LET S == Request(S0, <<"loginUser", username>>)
        found == Select(S.users, LAMBDA u : u.username = username)
    IN  IF found = <<>> \/ found[1].password # [bcrypt |-> password]
        THEN Failure(S, "Invalid credentials")
        ELSE LET user == found[1]
             IN  [S EXCEPT !.client[user.id] =
                               [loggedIn |-> TRUE, sessions |-> @.sessions + 1],
                           !.reply = [success |-> TRUE,
                                      user |-> [id |-> user.id,
                                                username |-> user.username,
                                                sessionToken |-> user.sessionToken]]]

\* logoutUser of User.jsx: the client forgets the token; no request is made.
logoutUser(S0, userId) ==
    [Request(S0, <<"logoutUser", userId>>) EXCEPT
        !.client[userId].loggedIn = FALSE, !.reply = [none |-> TRUE]]

\* socket.on('saveHostConfig')
saveHostConfig(S0, userId, sessionToken, hostConfig, iv) ==
    LET S == Request(S0, <<"saveHostConfig", userId, sessionToken, hostConfig>>)
    IN  IF ~Truthy(hostConfig.ip) \/ ~Truthy(hostConfig.user)
        THEN Failure(S, "IP and User are required")
        ELSE IF InvalidSession(S, userId, sessionToken)
        THEN Failure(S, "Invalid session")
        ELSE LET cleanConfig == CleanConfig(hostConfig)
                 finalName == IF Truthy(cleanConfig.props.name)
                              THEN cleanConfig.props.name ELSE cleanConfig.props.ip
                 existingHost == Select(S.hosts, LAMBDA h :
                                     h.name = finalName /\ h.createdBy = userId)
                 id == <<"host", S.made.hosts + 1>>
             IN  IF existingHost # <<>>
                 THEN Failure(S, "Host with this name already exists")
                 ELSE [S EXCEPT
                         !.hosts = Append(@,
                             [id |-> id, name |-> finalName,
                              config |-> encryptData(cleanConfig, userId,
                                                     sessionToken, iv),
                              users |-> {userId}, createdBy |-> userId,
                              folder |-> cleanConfig.props.folder,
                              savedIn |-> S.client[userId].sessions]),
                         !.made.hosts = @ + 1,
                         !.made.ivs = @ + 1,
                         !.encrypted = {id},
                         !.reply = [success |-> TRUE]]

\* Mutant: a record that fails to decrypt is returned with config null.
getHostsNoFilter(S0, userId, sessionToken) ==
    LET S == Request(S0, <<"getHosts", userId, sessionToken>>)
    IN  IF InvalidSession(S, userId, sessionToken)
        THEN Failure(S, "Invalid session")
        ELSE LET hosts == Select(S.hosts, LAMBDA h : userId \in h.users)
             IN  [S EXCEPT
                     !.decrypted = {hosts[i].id : i \in 1..Len(hosts)},
                     !.reply = [success |-> TRUE,
                                hosts |-> [i \in 1..Len(hosts) |->
                                    [hosts[i] EXCEPT !.config =
                                        decryptData(@, userId, sessionToken)]]]]

\* Mutant: the session is not verified.
getHostsNoSession(S0, userId, sessionToken) ==
    LET S == Request(S0, <<"getHosts", userId, sessionToken>>)
        hosts == Select(S.hosts, LAMBDA h : userId \in h.users)
        decryptedHosts == [i \in 1..Len(hosts) |->
                              [hosts[i] EXCEPT !.config =
                                  decryptData(@, userId, sessionToken)]]
    IN  [S EXCEPT
            !.decrypted = {hosts[i].id : i \in 1..Len(hosts)},
            !.reply = [success |-> TRUE,
                       hosts |-> Select(decryptedHosts,
                                        LAMBDA h : Truthy(h.config))]]

\* socket.on('getHosts')
getHosts(S0, userId, sessionToken) ==
    LET S == Request(S0, <<"getHosts", userId, sessionToken>>)
    IN  IF InvalidSession(S, userId, sessionToken)
        THEN Failure(S, "Invalid session")
        ELSE LET hosts == Select(S.hosts, LAMBDA h : userId \in h.users)
                 decryptedHosts == [i \in 1..Len(hosts) |->
                                       [hosts[i] EXCEPT !.config =
                                           decryptData(@, userId, sessionToken)]]
             IN  [S EXCEPT
                     !.decrypted = {hosts[i].id : i \in 1..Len(hosts)},
                     !.reply = [success |-> TRUE,
                                hosts |-> Select(decryptedHosts,
                                                 LAMBDA h : Truthy(h.config))]]

\* Mutant: any user the host lists may delete it.
deleteHostListed(S0, userId, sessionToken, hostId) ==
    LET S == Request(S0, <<"deleteHost", userId, sessionToken, hostId>>)
        Mine(h) == h.id = hostId /\ userId \in h.users
    IN  IF InvalidSession(S, userId, sessionToken)
        THEN Failure(S, "Invalid session")
        ELSE IF Select(S.hosts, Mine) = <<>>
        THEN Failure(S, "Host not found or not authorized")
        ELSE [S EXCEPT !.hosts = Select(@, LAMBDA h : ~Mine(h)),
                       !.reply = [success |-> TRUE]]

\* socket.on('deleteHost')
deleteHost(S0, userId, sessionToken, hostId) ==
    LET S == Request(S0, <<"deleteHost", userId, sessionToken, hostId>>)
        Mine(h) == h.id = hostId /\ h.createdBy = userId
    IN  IF InvalidSession(S, userId, sessionToken)
        THEN Failure(S, "Invalid session")
        ELSE IF Select(S.hosts, Mine) = <<>>
        THEN Failure(S, "Host not found or not authorized")
        ELSE [S EXCEPT !.hosts = Select(@, LAMBDA h : ~Mine(h)),
                       !.reply = [success |-> TRUE]]

\* socket.on('shareHost')
shareHost(S0, userId, sessionToken, hostId, targetUsername) ==
    LET S == Request(S0, <<"shareHost", userId, sessionToken, hostId, targetUsername>>)
        targetUser == Select(S.users, LAMBDA u : u.username = targetUsername)
        Mine(h) == h.id = hostId /\ h.createdBy = userId
        host == Select(S.hosts, Mine)
    IN  IF InvalidSession(S, userId, sessionToken)
        THEN Failure(S, "Invalid session")
        ELSE IF targetUser = <<>> THEN Failure(S, "User not found")
        ELSE IF host = <<>> THEN Failure(S, "Host not found")
        ELSE IF targetUser[1].id \in host[1].users THEN Failure(S, "Already shared")
        ELSE [S EXCEPT
                !.hosts = [i \in 1..Len(@) |->
                              IF Mine(@[i])
                              THEN [@[i] EXCEPT !.users = @ \cup {targetUser[1].id}]
                              ELSE @[i]],
                !.reply = [success |-> TRUE]]

\* socket.on('deleteUser')
deleteUser(S0, userId, sessionToken) ==
    LET S == Request(S0, <<"deleteUser", userId, sessionToken>>)
    IN  IF InvalidSession(S, userId, sessionToken)
        THEN Failure(S, "Invalid session")
        ELSE [S EXCEPT !.hosts = Select(@, LAMBDA h : h.createdBy # userId),
                       !.users = Select(@, LAMBDA u : u.id # userId),
                       !.client[userId].loggedIn = FALSE,
                       !.reply = [success |-> TRUE]]

\* socket.on("editHost"): the host is found by decrypting the owner's hosts
\* in order until one has the old ip; newHostConfig.ip.trim() throws on a
\* missing ip, which the catch answers.
editHost(S0, userId, sessionToken, oldHostConfig, newHostConfig, iv) ==
    LET S == Request(S0, <<"editHost", userId, sessionToken, oldHostConfig, newHostConfig>>)
        hosts == Select(S.hosts, LAMBDA h : h.createdBy = userId)
        Found(h) == LET decryptedConfig == decryptData(h.config, userId, sessionToken)
                    IN  Truthy(decryptedConfig)
                        /\ decryptedConfig.props.ip = oldHostConfig.ip
        first == Select(hosts, Found)
        tried == IF first = <<>> THEN {hosts[i].id : i \in 1..Len(hosts)}
                 ELSE {hosts[i].id : i \in {j \in 1..Len(hosts) :
                          \A k \in 1..(j-1) : ~Found(hosts[k])}}
    IN  IF InvalidSession(S, userId, sessionToken)
        THEN Failure(S, "Invalid session")
        ELSE IF first = <<>>
        THEN [Failure(S, "Host not found") EXCEPT !.decrypted = tried]
        ELSE IF newHostConfig.ip.type # "string" \/ newHostConfig.user.type # "string"
        THEN [Failure(S, "Failed to edit host") EXCEPT !.decrypted = tried]
        ELSE LET cleanConfig == CleanConfig(newHostConfig)
             IN  [S EXCEPT
                     !.hosts = [i \in 1..Len(@) |->
                                   IF @[i].id = first[1].id
                                   THEN [@[i] EXCEPT
                                            !.config = encryptData(cleanConfig,
                                                userId, sessionToken, iv),
                                            !.folder = cleanConfig.props.folder]
                                   ELSE @[i]],
                     !.made.ivs = @ + 1,
                     !.decrypted = tried,
                     !.encrypted = {first[1].id},
                     !.reply = [success |-> TRUE]]

\* crypto.randomBytes(16): a value that was not drawn before.
RandomIv(S) == <<"iv", S.made.ivs + 1>>

\* One request is handled.
Handled(S) ==
    /\ store.started
    /\ store' = S
    /\ UNCHANGED <<relayVars, heartbeat, observer, codec, registry, calls, loop, mount>>

\* The collections with two users created and their clients in their
\* first session.
TwoUsers ==
    [createUser(createUser(StoreInit, "alice", "alice", "c3d4"),
                "bob", "bob", "e5f6")
        EXCEPT !.op = <<"listen">>, !.reply = [none |-> TRUE]]

InitStore ==
    /\ InitRelay
    /\ heartbeat = NotStarted
    /\ observer = NotStarted
    /\ codec = NotStarted
    /\ store = TwoUsers
    /\ registry = NotStarted
    /\ calls = NotStarted
    /\ loop = NotStarted
    /\ mount = NotStarted

SaveHostConfig(max) ==
    \E K \in DerivationInputs, h \in HostInputs :
        /\ store.made.hosts < max
        /\ Handled(saveHostConfig(store, K[1], K[2], h, RandomIv(store)))

GetHosts ==
    \E K \in DerivationInputs : Handled(getHosts(store, K[1], K[2]))

\* The requests on hosts, with both users present.
NextStore ==
    \/ SaveHostConfig(MaxHosts)
    \/ GetHosts
    \/ \E K \in DerivationInputs, id \in HostIds :
          Handled(deleteHost(store, K[1], K[2], id))
    \/ \E K \in DerivationInputs, id \in HostIds, i \in 1..Len(Usernames) :
          Handled(shareHost(store, K[1], K[2], id, Usernames[i]))
    \/ \E K \in DerivationInputs, old \in OldHostInputs, new \in HostInputs :
          /\ Len(store.hosts) > 0
          /\ store.made.ivs < MaxHosts + MaxEdits
          /\ Handled(editHost(store, K[1], K[2], old, new, RandomIv(store)))
SpecStore == InitStore /\ [][NextStore]_vars

InitUsers ==
    /\ InitRelay
    /\ heartbeat = NotStarted
    /\ observer = NotStarted
    /\ codec = NotStarted
    /\ store = StoreInit
    /\ registry = NotStarted
    /\ calls = NotStarted
    /\ loop = NotStarted
    /\ mount = NotStarted

\* The requests on users and their sessions, from an empty store.
NextUsers ==
    \/ \E i \in 1..Len(Usernames), t \in SessionTokens :
          /\ store.made.users < MaxUsers
          /\ \A j \in 1..Len(store.users) : store.users[j].sessionToken # t
          /\ Handled(createUser(store, Usernames[i], Usernames[i], t))
    \/ \E i \in 1..Len(Usernames), pw \in 1..Len(Usernames) :
          /\ \A u \in UserIds : store.client[u].sessions < MaxSessions
          /\ \A j \in 1..Len(store.users) :
                store.users[j].username = Usernames[i]
                   => ~store.client[store.users[j].id].loggedIn
          /\ Handled(loginUser(store, Usernames[i], Usernames[pw]))
    \/ \E u \in UserIds :
          /\ store.client[u].loggedIn
          /\ Handled(logoutUser(store, u))
    \/ \E K \in DerivationInputs : Handled(deleteUser(store, K[1], K[2]))
    \/ SaveHostConfig(MaxUserHosts)
    \/ GetHosts
SpecUsers == InitUsers /\ [][NextUsers]_vars

\* The plaintext inside a stored payload, and the fields of a host record
\* that are stored beside the payload.
Payload(host) == Split(host.config)[2].hex.text.value.props
Beside(host) == {host.name, host.folder}

\* ---- C21 ------------------------------------------------------------------
\* C21: in every state of the store, no field stored beside the payload of a
\* host record holds the host address, the user, the port, the password or
\* the key of that host's descriptor.
C21_PlaintextNeverPersisted ==
    store.started =>
        \A i \in 1..Len(store.hosts) :
            \A c \in {"ip", "user", "port", "password", "rsaKey"} :
                \A field \in Beside(store.hosts[i]) :
                    field.type = Payload(store.hosts[i])[c].type
                        => \/ field.type \in {"undefined", "null"}
                           \/ field # Payload(store.hosts[i])[c]

\* The key under which a stored payload was encrypted.
KeyOf(host) == Split(host.config)[2].hex.key

\* ---- C22 ------------------------------------------------------------------
\* C22: in every state of the store, no user record holds a token from
\* which, with the owner's id, the key of a stored payload is derived.
C22_DerivationInputNotStored ==
    store.started =>
        \A i \in 1..Len(store.hosts), j \in 1..Len(store.users) :
            getEncryptionKey(store.hosts[i].createdBy, store.users[j].sessionToken)
                # KeyOf(store.hosts[i])

\* The name under which saveHostConfig stores a valid hostConfig.
FinalName(hostConfig) ==
    IF Truthy(CleanConfig(hostConfig).props.name)
    THEN CleanConfig(hostConfig).props.name
    ELSE CleanConfig(hostConfig).props.ip

\* ---- C23 ------------------------------------------------------------------
\* C23: a saveHostConfig request with a valid session whose host name
\* equals, ignoring letter case, the name of a host already stored by the
\* same owner is answered with an error and leaves the hosts unchanged.
C23_DuplicateNameRejected ==
    [][(/\ store'.op[1] = "saveHostConfig"
        /\ ~InvalidSession(store, store'.op[2], store'.op[3])
        /\ Truthy(store'.op[4].ip)
        /\ \E i \in 1..Len(store.hosts) :
              /\ store.hosts[i].createdBy = store'.op[2]
              /\ ToLowerCase(store.hosts[i].name.chars)
                    = ToLowerCase(FinalName(store'.op[4]).chars))
           => /\ "error" \in DOMAIN store'.reply
              /\ store'.hosts = store.hosts]_vars

\* The ids of the hosts in a getHosts reply.
Returned(reply) == {reply.hosts[j].id : j \in 1..Len(reply.hosts)}

\* ---- C24 ------------------------------------------------------------------
\* C24: a getHosts request with a valid session is answered with success and
\* with exactly the records listing the user that were encrypted under the
\* request's derivation input, each once and with its plaintext as config;
\* the other records listing the user are left out, and the stored hosts
\* are unchanged.
C24_ReadOmitsUndecryptable ==
    [][(/\ store'.op[1] = "getHosts"
        /\ ~InvalidSession(store, store'.op[2], store'.op[3]))
           => /\ "success" \in DOMAIN store'.reply
              /\ store'.hosts = store.hosts
              /\ Len(store'.reply.hosts) = Cardinality(Returned(store'.reply))
              /\ \A i \in 1..Len(store.hosts) :
                    store.hosts[i].id \in Returned(store'.reply)
                       <=> /\ store'.op[2] \in store.hosts[i].users
                           /\ KeyOf(store.hosts[i])
                                 = getEncryptionKey(store'.op[2], store'.op[3])
              /\ \A j \in 1..Len(store'.reply.hosts) :
                    \E i \in 1..Len(store.hosts) :
                        /\ store.hosts[i].id = store'.reply.hosts[j].id
                        /\ store'.reply.hosts[j].config.type = "object"
                        /\ \A c \in DOMAIN store'.reply.hosts[j].config.props :
                              store'.reply.hosts[j].config.props[c]
                                 = Payload(store.hosts[i])[c]]_vars

C24_Witness ==
    /\ store.started
    /\ store.op[1] = "getHosts"
    /\ "success" \in DOMAIN store.reply
    /\ Len(store.reply.hosts) = 1
    /\ Cardinality({i \in 1..Len(store.hosts) :
                       store.op[2] \in store.hosts[i].users}) = 2

\* The hosts that a user created and that were encrypted under another
\* derivation input than (userId, sessionToken).
OtherToken(S, userId, sessionToken) ==
    {i \in 1..Len(S.hosts) :
        /\ S.hosts[i].createdBy = userId
        /\ KeyOf(S.hosts[i]) # getEncryptionKey(userId, sessionToken)}

\* ---- C25 ------------------------------------------------------------------
\* C25 (as stated): a getHosts request of an owner with another token than
\* the one a host of that owner was stored with is answered with success and
\* with a result that leaves that host out.
C25_OtherTokenOmits ==
    [][(/\ store'.op[1] = "getHosts"
        /\ OtherToken(store, store'.op[2], store'.op[3]) # {})
           => /\ "success" \in DOMAIN store'.reply
              /\ \A i \in OtherToken(store, store'.op[2], store'.op[3]) :
                    store.hosts[i].id \notin Returned(store'.reply)]_vars

\* C25: a getHosts request of an owner with another token than the one a
\* host of that owner was stored with is answered with the error
\* 'Invalid session': no result is returned, nothing is decrypted and the
\* stored hosts are unchanged.
C25_OtherTokenInvalidSession ==
    [][(/\ store'.op[1] = "getHosts"
        /\ OtherToken(store, store'.op[2], store'.op[3]) # {})
           => /\ store'.reply = [error |-> "Invalid session"]
              /\ store'.decrypted = {}
              /\ store'.hosts = store.hosts]_vars

C25_Witness ==
    /\ store.started
    /\ store.op[1] = "getHosts"
    /\ OtherToken(store, store.op[2], store.op[3]) # {}
    /\ store.reply = [error |-> "Invalid session"]

\* ---- C26 ------------------------------------------------------------------
\* C26: a deleteHost, shareHost or editHost request decrypts no payload,
\* encrypts none, and leaves the payload of every host that is still stored
\* afterwards as it was.
C26_RecordOnlyOperations ==
    [][store'.op[1] \in {"deleteHost", "shareHost", "editHost"}
          => /\ store'.decrypted = {}
             /\ store'.encrypted = {}
             /\ \A i \in 1..Len(store.hosts), j \in 1..Len(store'.hosts) :
                   store.hosts[i].id = store'.hosts[j].id
                      => store.hosts[i].config = store'.hosts[j].config]_vars

\* The hosts that a user saved in an earlier session of their client.
SavedEarlier(S, userId) ==
    {i \in 1..Len(S.hosts) :
        /\ S.hosts[i].createdBy = userId
        /\ S.hosts[i].savedIn < S.client[userId].sessions}

MaxNow == 2
MaxMounts == 3

Terminals == {"t1", "t2"}
TerminalHosts ==
    {[ip |-> "10.0.0.5", user |-> "alice"], [ip |-> "10.0.0.6", user |-> "alice"]}

\* `terminal-${hostConfig.ip}-${hostConfig.user}-${uniqueTimestamp}` and the
\* property name that the number uniqueTimestamp becomes.
TerminalId(hostConfig, uniqueTimestamp) ==
    [prefix |-> "terminal", ip |-> hostConfig.ip, user |-> hostConfig.user,
     timestamp |-> uniqueTimestamp]
TimestampKey(uniqueTimestamp) ==
    [prefix |-> "", ip |-> "", user |-> "", timestamp |-> uniqueTimestamp]

\* object[key] = value and delete object[key]
Assign(object, key, value) ==
    [k \in DOMAIN object \cup {key} |-> IF k = key THEN value ELSE object[k]]
Delete(object, key) == [k \in DOMAIN object \ {key} |-> object[k]]

Unmounted == [mounted |-> FALSE, socket |-> 0, terminalId |-> TimestampKey(0),
              hostDataId |-> 0]
RegistryInit ==
    [started |-> TRUE, now |-> 1, sockets |-> 0, mounts |-> 0,
     terminalSockets |-> [k \in {} |-> 0],
     terminal |-> [t \in Terminals |-> Unmounted],
     op |-> <<"load">>]

\* Date.now() advances.
RegistryTick ==
    /\ registry.started
    /\ registry.now < MaxNow
    /\ registry' = [registry EXCEPT !.now = @ + 1, !.op = <<"time">>]
    /\ UNCHANGED <<relayVars, heartbeat, observer, codec, store, calls, loop, mount>>

\* The effect of a terminal component runs: a socket is made and registered
\* under its terminalId and under uniqueTimestamp = Date.now().
TerminalMounts(t, hostConfig) ==
    /\ registry.started
    /\ ~registry.terminal[t].mounted
    /\ registry.mounts < MaxMounts
    /\ LET socket == registry.sockets + 1
           uniqueTimestamp == registry.now
           terminalId == TerminalId(hostConfig, uniqueTimestamp)
       IN  registry' = [registry EXCEPT
               !.sockets = socket,
               !.mounts = @ + 1,
               !.terminalSockets =
                   Assign(Assign(@, terminalId, socket),
                          TimestampKey(uniqueTimestamp), socket),
               !.terminal[t] = [mounted |-> TRUE, socket |-> socket,
                                terminalId |-> terminalId,
                                hostDataId |-> uniqueTimestamp],
               !.op = <<"mount", t>>]
    /\ UNCHANGED <<relayVars, heartbeat, observer, codec, store, calls, loop, mount>>

\* The effect's cleanup: the entry under terminalId is deleted if there is
\* one, and then the entry under hostData.id if there is one.
TerminalUnmounts(t) ==
    /\ registry.started
    /\ registry.terminal[t].mounted
    /\ LET own == registry.terminal[t]
           sockets == registry.terminalSockets
           afterId == IF own.terminalId \in DOMAIN sockets
                      THEN Delete(sockets, own.terminalId) ELSE sockets
           after == IF /\ own.terminalId \in DOMAIN sockets
                       /\ own.hostDataId # 0
                       /\ TimestampKey(own.hostDataId) \in DOMAIN sockets
                    THEN Delete(afterId, TimestampKey(own.hostDataId))
                    ELSE afterId
       IN  registry' = [registry EXCEPT
               !.terminalSockets = after,
               !.terminal[t] = [@ EXCEPT !.mounted = FALSE],
               !.op = <<"unmount", t>>]
    /\ UNCHANGED <<relayVars, heartbeat, observer, codec, store, calls, loop, mount>>

InitRegistry ==
    /\ InitRelay
    /\ heartbeat = NotStarted
    /\ observer = NotStarted
    /\ codec = NotStarted
    /\ store = NotStarted
    /\ registry = RegistryInit
    /\ calls = NotStarted
    /\ loop = NotStarted
    /\ mount = NotStarted

NextRegistry ==
    \/ RegistryTick
    \/ \E t \in Terminals, h \in TerminalHosts : TerminalMounts(t, h)
    \/ \E t \in Terminals : TerminalUnmounts(t)
SpecRegistry == InitRegistry /\ [][NextRegistry]_vars

\* The keys under which the registry holds a socket.
EntriesOf(R, socket) ==
    {k \in DOMAIN R.terminalSockets : R.terminalSockets[k] = socket}

\* ---- C27 ------------------------------------------------------------------
\* C27: a terminal that mounts is registered under two keys that no entry
\* used before, and a terminal that unmounts leaves no entry for its socket
\* and leaves every entry of every other mounted terminal in place.
C27_OwnEntriesOnly ==
    [][/\ registry'.op[1] = "mount"
          => /\ Cardinality(EntriesOf(registry', registry'.sockets)) = 2
             /\ EntriesOf(registry', registry'.sockets)
                   \cap DOMAIN registry.terminalSockets = {}
       /\ registry'.op[1] = "unmount"
          => /\ EntriesOf(registry', registry.terminal[registry'.op[2]].socket) = {}
             /\ \A t \in Terminals \ {registry'.op[2]} :
                   registry.terminal[t].mounted
                      => EntriesOf(registry', registry.terminal[t].socket)
                            = EntriesOf(registry, registry.terminal[t].socket)]_vars

\* ---- the event loop of the backend process ------------------------------
\* The starter requires database.cjs and ssh.cjs into one Node process: the
\* handlers of both run on one thread, one event at a time.
MaxEvents == 4
MaxRecords == 2

\* What arrives: an event of a live relay session, or a getHosts request
\* whose user is listed by a number of records.
LoopEvents ==
    {[kind |-> "relay", records |-> 0]}
        \cup {[kind |-> "getHosts", records |-> n] : n \in 1..MaxRecords}

LoopInit ==
    [started |-> TRUE, queue |-> <<>>, thread |-> "idle", records |-> 0,
     arrived |-> 0, processed |-> [relay |-> 0, getHosts |-> 0]]

\* An event arrives from the network and waits for the thread.
EventArrives(e) ==
    /\ loop.started
    /\ loop.arrived < MaxEvents
    /\ loop' = [loop EXCEPT !.queue = Append(@, e), !.arrived = @ + 1]
    /\ UNCHANGED <<relayVars, heartbeat, observer, codec, store, registry, calls, mount>>

\* The idle thread runs the handler of a relay event.
RelayEventProcessed ==
    /\ loop.started
    /\ loop.thread = "idle"
    /\ loop.queue # <<>>
    /\ Head(loop.queue).kind = "relay"
    /\ loop' = [loop EXCEPT !.queue = Tail(@), !.processed.relay = @ + 1]
    /\ UNCHANGED <<relayVars, heartbeat, observer, codec, store, registry, calls, mount>>

\* The idle thread runs getHosts after its queries: hosts.map(...) starts
\* and with it the first decryptData, whose getEncryptionKey is
\* crypto.scryptSync, a call that returns when the key is derived.
DecryptingStarts ==
    /\ loop.started
    /\ loop.thread = "idle"
    /\ loop.queue # <<>>
    /\ Head(loop.queue).kind = "getHosts"
    /\ loop' = [loop EXCEPT !.queue = Tail(@), !.thread = "deriving",
                            !.records = Head(loop.queue).records]
    /\ UNCHANGED <<relayVars, heartbeat, observer, codec, store, registry, calls, mount>>

\* scryptSync returns and the record is deciphered; after the last record
\* the callback is called and the handler returns to the loop.
KeyDerived ==
    /\ loop.started
    /\ loop.thread = "deriving"
    /\ loop' = [loop EXCEPT
                   !.records = @ - 1,
                   !.thread = IF loop.records = 1 THEN "idle" ELSE "deriving",
                   !.processed.getHosts = IF loop.records = 1 THEN @ + 1 ELSE @]
    /\ UNCHANGED <<relayVars, heartbeat, observer, codec, store, registry, calls, mount>>

InitLoop ==
    /\ InitRelay
    /\ heartbeat = NotStarted
    /\ observer = NotStarted
    /\ codec = NotStarted
    /\ store = NotStarted
    /\ registry = NotStarted
    /\ calls = NotStarted
    /\ loop = LoopInit
    /\ mount = NotStarted

NextLoop ==
    \/ \E e \in LoopEvents : EventArrives(e)
    \/ RelayEventProcessed
    \/ DecryptingStarts
    \/ KeyDerived
SpecLoop == InitLoop /\ [][NextLoop]_vars

\* ---- C28 ------------------------------------------------------------------
\* C28: while a store request is deriving a key or decrypting records and
\* the event of a live relay session waits first in the queue, that event
\* can be processed.
C28_CryptoDoesNotBlock ==
    (/\ loop.started
     /\ loop.thread = "deriving"
     /\ loop.queue # <<>>
     /\ Head(loop.queue).kind = "relay")
        => ENABLED RelayEventProcessed

\* ---- the store client's calls (User.jsx) --------------------------------
MaxCalls == 3

\* The events the client emits with an acknowledgment callback, and those
\* among them for which database.cjs registers a handler.
ClientEvents == {"loginUser", "getHosts", "removeShare"}
HandledEvents == {"loginUser", "getHosts"}

CallsInit == [started |-> TRUE, connected |-> TRUE, calls |-> <<>>]

\* new Promise((resolve) => socket.emit(event, payload, resolve))
Emitted(event) ==
    /\ calls.started
    /\ Len(calls.calls) < MaxCalls
    /\ calls' = [calls EXCEPT !.calls =
                    Append(@, [event |-> event, state |-> "pending",
                               sent |-> calls.connected, lost |-> FALSE])]
    /\ UNCHANGED <<relayVars, heartbeat, observer, codec, store, registry, loop, mount>>

\* The handler's callback(...) reaches the client: resolve is called.
Acknowledged(i) ==
    /\ calls.started
    /\ calls.connected
    /\ calls.calls[i].state = "pending"
    /\ calls.calls[i].sent
    /\ ~calls.calls[i].lost
    /\ calls.calls[i].event \in HandledEvents
    /\ calls' = [calls EXCEPT !.calls[i].state = "resolved"]
    /\ UNCHANGED <<relayVars, heartbeat, observer, codec, store, registry, loop, mount>>

\* The transport closes: the acknowledgments of the requests sent on it
\* will not arrive.
TransportClosed ==
    /\ calls.started
    /\ calls.connected
    /\ calls' = [calls EXCEPT
                    !.connected = FALSE,
                    !.calls = [i \in 1..Len(@) |->
                                  IF @[i].state = "pending" /\ @[i].sent
                                  THEN [@[i] EXCEPT !.lost = TRUE]
                                  ELSE @[i]]]
    /\ UNCHANGED <<relayVars, heartbeat, observer, codec, store, registry, loop, mount>>

\* The transport is connected again and the buffered emits are sent.
TransportOpened ==
    /\ calls.started
    /\ ~calls.connected
    /\ calls' = [calls EXCEPT
                    !.connected = TRUE,
                    !.calls = [i \in 1..Len(@) |-> [@[i] EXCEPT !.sent = TRUE]]]
    /\ UNCHANGED <<relayVars, heartbeat, observer, codec, store, registry, loop, mount>>

InitCalls ==
    /\ InitRelay
    /\ heartbeat = NotStarted
    /\ observer = NotStarted
    /\ codec = NotStarted
    /\ store = NotStarted
    /\ registry = NotStarted
    /\ calls = CallsInit
    /\ loop = NotStarted
    /\ mount = NotStarted

NextCalls ==
    \/ \E e \in ClientEvents : Emitted(e)
    \/ \E i \in 1..Len(calls.calls) : Acknowledged(i)
    \/ TransportClosed
    \/ TransportOpened
\* The server answers every request it handles, and a closed transport is
\* opened again.
SpecCalls ==
    /\ InitCalls
    /\ [][NextCalls]_vars
    /\ \A i \in 1..MaxCalls : WF_vars(i <= Len(calls.calls) /\ Acknowledged(i))
    /\ WF_vars(TransportOpened)

\* ---- C30 ------------------------------------------------------------------
\* C30: every call that is pending is eventually not pending: it is
\* resolved or it fails.
C30_CallsComplete ==
    \A i \in 1..MaxCalls :
        (i <= Len(calls.calls) /\ calls.calls[i].state = "pending")
            ~> (i <= Len(calls.calls) /\ calls.calls[i].state # "pending")

\* ---- C31 ------------------------------------------------------------------
\* The step handles a `close` or `error` event of connection c.
LateEventOf(l, c) ==
    l[1][1] \in {"connClose", "connError"} /\ l[1][2] = c

\* C31: when connection c of a session was replaced by a later connection
\* that the session references, a `close` or `error` event of c leaves the
\* session's references to the later connection and to its stream as they
\* were and ends neither of them.
C31_LateEventsLeaveReplacement ==
    [][\A c \in Conns :
          LET s == conns[c].sock
              t == conn[s]
          IN  (LateEventOf(last', c) /\ t # Null /\ c < t)
              => /\ conn'[s] = t
                 /\ stream'[s] = stream[s]
                 /\ conns'[t].st = conns[t].st
                 /\ stream[s] # Null
                    => chans'[stream[s]].st = chans[stream[s]].st]_vars

\* ---- C32 ------------------------------------------------------------------
\* C32: a client payload received while the session had no open channel is
\* discarded: it is never written to any channel.
C32_InputWithoutChannelDiscarded ==
    \A s \in Sockets, k \in Conns : WrittenTo(k) \cap recv[s].idle = {}

\* ---- C33 ------------------------------------------------------------------
\* The `resize` messages emitted by the step.
ResizeAcks(l, s) == {i \in 2..Len(l) : IsEmit(l[i], s, "resize")}

\* C33: a transport never has more than one handler registered for client
\* `data` and `resize` (both are registered together by the shell callback),
\* and a resize request received while a channel is open is acknowledged
\* exactly once.
C33_OneHandlerPerEvent ==
    /\ [](\A s \in Sockets : Len(handlers[s]) <= 1)
    /\ [][\A s \in Sockets :
            (Len(last'[1]) = 3 /\ last'[1][1] = "resize" /\ last'[1][2] = s
             /\ ChannelOpen(s) /\ ~crashed')
            => Cardinality(ResizeAcks(last', s)) = 1]_vars

\* ---- concurrent requests on the store ------------------------------------
\* Every `await` of an async handler returns to the event loop, so the
\* handlers of other requests run between a handler's query and its write.
\* pending holds the saveHostConfig requests whose Host.findOne has answered
\* and whose Host.create has not been made yet.
RaceInit ==
    [f \in DOMAIN TwoUsers \cup {"pending"} |->
        IF f = "pending" THEN <<>> ELSE TwoUsers[f]]

\* saveHostConfig up to the answer of `await Host.findOne(...)`: a request
\* that passes every check waits for its Host.create.
saveHostConfigFindOne(S0, userId, sessionToken, hostConfig) ==
    LET S == Request(S0, <<"saveHostConfig", userId, sessionToken, hostConfig>>)
    IN  IF ~Truthy(hostConfig.ip) \/ ~Truthy(hostConfig.user)
        THEN Failure(S, "IP and User are required")
        ELSE IF InvalidSession(S, userId, sessionToken)
        THEN Failure(S, "Invalid session")
        ELSE LET cleanConfig == CleanConfig(hostConfig)
                 finalName == IF Truthy(cleanConfig.props.name)
                              THEN cleanConfig.props.name ELSE cleanConfig.props.ip
                 existingHost == Select(S.hosts, LAMBDA h :
                                     h.name = finalName /\ h.createdBy = userId)
             IN  IF existingHost # <<>>
                 THEN Failure(S, "Host with this name already exists")
                 ELSE [S EXCEPT
                         !.pending = Append(@,
                             [userId |-> userId, sessionToken |-> sessionToken,
                              cleanConfig |-> cleanConfig, finalName |-> finalName]),
                         !.reply = [none |-> TRUE]]

\* The rest of saveHostConfig for the pending request i: encryptData,
\* `await Host.create(...)` and the callback.
saveHostConfigCreate(S0, i, iv) ==
    LET r == S0.pending[i]
        S == Request(S0, <<"Host.create", r.userId, r.finalName>>)
        id == <<"host", S.made.hosts + 1>>
    IN  [S EXCEPT
            !.pending = SubSeq(@, 1, i - 1) \o SubSeq(@, i + 1, Len(@)),
            !.hosts = Append(@,
                [id |-> id, name |-> r.finalName,
                 config |-> encryptData(r.cleanConfig, r.userId,
                                        r.sessionToken, iv),
                 users |-> {r.userId}, createdBy |-> r.userId,
                 folder |-> r.cleanConfig.props.folder,
                 savedIn |-> S.client[r.userId].sessions]),
            !.made.hosts = @ + 1,
            !.made.ivs = @ + 1,
            !.encrypted = {id},
            !.reply = [success |-> TRUE]]

InitRace ==
    /\ InitRelay
    /\ heartbeat = NotStarted
    /\ observer = NotStarted
    /\ codec = NotStarted
    /\ store = RaceInit
    /\ registry = NotStarted
    /\ calls = NotStarted
    /\ loop = NotStarted
    /\ mount = NotStarted

\* saveHostConfig and editHost requests of both users, interleaved at the
\* awaits of saveHostConfig.
NextRace ==
    \/ \E K \in DerivationInputs, h \in HostInputs :
          /\ store.made.hosts + Len(store.pending) < MaxHosts
          /\ Handled(saveHostConfigFindOne(store, K[1], K[2], h))
    \/ \E i \in 1..MaxHosts :
          /\ i <= Len(store.pending)
          /\ Handled(saveHostConfigCreate(store, i, RandomIv(store)))
    \/ \E K \in DerivationInputs, old \in OldHostInputs, new \in HostInputs :
          /\ Len(store.hosts) > 0
          /\ store.made.ivs < MaxHosts + MaxEdits
          /\ Handled(editHost(store, K[1], K[2], old, new, RandomIv(store)))
SpecRace == InitRace /\ [][NextRace]_vars

\* ---- C34 ------------------------------------------------------------------
\* C34: no two stored hosts of one owner have the same name, whatever
\* saveHostConfig and editHost requests were made and however their steps
\* interleaved.
C34_OwnerNamesDistinct ==
    \A i, j \in 1..Len(store.hosts) :
        (i # j /\ store.hosts[i].createdBy = store.hosts[j].createdBy)
        => store.hosts[i].name # store.hosts[j].name

\* ---- saved credentials as the client reads them back -----------------------
\* The hostConfig objects of these runs: a password without and with a
\* leading blank, and key material in the field the add-host form fills
\* (sshKey) or in the field the store keeps (rsaKey).
CredentialInput(name, password, sshKey, rsaKey) ==
    [name |-> Str(name), folder |-> JsUndefined, ip |-> Str("10.0.0.5"),
     user |-> Str("alice"), port |-> Num(2222), password |-> password,
     sshKey |-> sshKey, rsaKey |-> rsaKey]
CredentialInputs ==
    {CredentialInput(n, c[1], c[2], c[3]) :
        n \in {"prod", "db"},
        c \in {<<Str("s3cr3t"), JsUndefined, JsUndefined>>,
               <<Str(" s3cr3t"), JsUndefined, JsUndefined>>,
               <<JsUndefined, Str("ssh-key"), JsUndefined>>,
               <<JsUndefined, JsUndefined, Str("ssh-key")>>}}

\* object.property, and a || b.
Prop(object, p) ==
    IF p \in DOMAIN object.props THEN object.props[p] ELSE JsUndefined
Or(a, b) == IF Truthy(a) THEN a ELSE b

\* getAllHosts of User.jsx: the getHosts request, then the reply mapped to
\* the fields the client keeps (of which the ones read here are modelled)
\* and filtered; a failure is reported and yields no hosts.
getAllHosts(S0, userId, sessionToken) ==
    LET S == getHosts(S0, userId, sessionToken)
        Config(host) ==
            IF Truthy(host.config)
            THEN Obj([name |-> Or(Prop(host.config, "name"), Str("")),
                      folder |-> Or(Prop(host.config, "folder"), Str("")),
                      ip |-> Or(Prop(host.config, "ip"), Str("")),
                      user |-> Or(Prop(host.config, "user"), Str("")),
                      port |-> Or(Prop(host.config, "port"), Str("22")),
                      password |-> Or(Prop(host.config, "password"), Str("")),
                      sshKey |-> Or(Prop(host.config, "sshKey"), Str(""))])
            ELSE Obj([p \in {} |-> JsUndefined])
        Kept(host) == /\ Truthy(host.config)
                      /\ Truthy(Prop(host.config, "ip"))
                      /\ Truthy(Prop(host.config, "user"))
        S1 == [S EXCEPT !.op = <<"getAllHosts", userId, sessionToken>>]
    IN  IF "success" \in DOMAIN S.reply
        THEN [S1 EXCEPT !.reply =
                [hosts |-> Select([j \in 1..Len(S.reply.hosts) |->
                                      [S.reply.hosts[j] EXCEPT
                                          !.config = Config(S.reply.hosts[j])]],
                                  Kept)]]
        ELSE [S1 EXCEPT !.reply = [hosts |-> <<>>]]

\* Hosts are saved with credentials and read back by the clients.
NextRead ==
    \/ \E K \in DerivationInputs, h \in CredentialInputs :
          /\ store.made.hosts < MaxHosts
          /\ Handled(saveHostConfig(store, K[1], K[2], h, RandomIv(store)))
    \/ \E K \in DerivationInputs : Handled(getAllHosts(store, K[1], K[2]))
SpecRead == InitStore /\ [][NextRead]_vars

\* ---- C35 ------------------------------------------------------------------
\* The key material of a hostConfig, whichever field holds it.
KeyMaterial(hostConfig) ==
    {hostConfig[f] : f \in {"sshKey", "rsaKey"}} \ {JsUndefined}

\* C35: when a saveHostConfig request has succeeded, the hosts that the
\* same user reads back with the same token include the new host, with the
\* ip, user and port that were submitted, with the submitted password when
\* one was submitted and with the submitted key material when some was.
C35_SavedCredentialsReadBack ==
    [][(/\ store'.op[1] = "saveHostConfig"
        /\ "success" \in DOMAIN store'.reply)
           => LET hostConfig == store'.op[4]
                  read == getAllHosts(store', store'.op[2], store'.op[3]).reply.hosts
              IN  \E j \in 1..Len(read) :
                      LET config == read[j].config.props IN
                      /\ read[j].id = <<"host", store'.made.hosts>>
                      /\ config.ip = hostConfig.ip
                      /\ config.user = hostConfig.user
                      /\ config.port = hostConfig.port
                      /\ Truthy(hostConfig.password)
                            => config.password = hostConfig.password
                      /\ KeyMaterial(hostConfig) # {}
                            => config.sshKey \in KeyMaterial(hostConfig)]_vars

\* ---- C36 ------------------------------------------------------------------
\* What user `username` reads with a valid session: the reply of getHosts
\* for the stored id and token of that user.
ReadBy(S, username) ==
    LET user == Select(S.users, LAMBDA u : u.username = username)[1]
    IN  getHosts(S, user.id, user.sessionToken).reply

\* getHosts reply `reply` holds host `hostId` with the plaintext of its
\* stored configuration.
ReturnsDecrypted(S, reply, hostId) ==
    /\ "success" \in DOMAIN reply
    /\ \E j \in 1..Len(reply.hosts), i \in 1..Len(S.hosts) :
          /\ reply.hosts[j].id = hostId
          /\ S.hosts[i].id = hostId
          /\ reply.hosts[j].config.type = "object"
          /\ reply.hosts[j].config.props = Payload(S.hosts[i])

\* C36: when a shareHost request has succeeded, the target user, reading
\* with a valid session, gets the host with its decrypted configuration,
\* and so does the creator.
C36_SharedHostReadable ==
    [][(/\ store'.op[1] = "shareHost"
        /\ "success" \in DOMAIN store'.reply)
           => /\ ReturnsDecrypted(store', ReadBy(store', store'.op[5]),
                                  store'.op[4])
              /\ ReturnsDecrypted(store',
                                  getHosts(store', store'.op[2], store'.op[3]).reply,
                                  store'.op[4])]_vars

\* ---- C37 ------------------------------------------------------------------
\* The host records of S by id, and the ids of the records that a step
\* from S to T removed or changed.
RecordOf(S, id) == Select(S.hosts, LAMBDA h : h.id = id)
ChangedHosts(S, T) ==
    {S.hosts[i].id : i \in {j \in 1..Len(S.hosts) :
                               RecordOf(T, S.hosts[j].id) # <<S.hosts[j]>>}}

\* The request names a host of its sender: deleteHost and shareHost name
\* it by id, editHost means one of the sender's own hosts.
OwnTarget(S, op) ==
    \E i \in 1..Len(S.hosts) :
        /\ S.hosts[i].createdBy = op[2]
        /\ op[1] \in {"deleteHost", "shareHost"} => S.hosts[i].id = op[4]

\* C37: a deleteHost, editHost or shareHost request succeeds only with a
\* valid session of the user who created the host, and then changes no
\* host of another creator; a request with an invalid session, or for a host
\* its sender did not create, is answered with an error and leaves the
\* users and the hosts as they were.
C37_OnlyCreatorChanges ==
    [][store'.op[1] \in {"deleteHost", "editHost", "shareHost"}
       => LET op == store'.op
              authorized == /\ ~InvalidSession(store, op[2], op[3])
                            /\ OwnTarget(store, op)
          IN  /\ "success" \in DOMAIN store'.reply
                 => /\ authorized
                    /\ ChangedHosts(store, store') # {}
                    /\ \A id \in ChangedHosts(store, store') :
                          RecordOf(store, id)[1].createdBy = op[2]
              /\ ~authorized
                 => /\ "error" \in DOMAIN store'.reply
              /\ "error" \in DOMAIN store'.reply
                 => /\ store'.hosts = store.hosts
                    /\ store'.users = store.users]_vars

\* A user whom a host was shared with, holding a valid session, asked to
\* delete it and was refused.
C37_Witness ==
    /\ store.started
    /\ store.op[1] = "deleteHost"
    /\ "error" \in DOMAIN store.reply
    /\ ~InvalidSession(store, store.op[2], store.op[3])
    /\ \E i \in 1..Len(store.hosts) :
          /\ store.hosts[i].id = store.op[4]
          /\ store.op[2] \in store.hosts[i].users
          /\ store.hosts[i].createdBy # store.op[2]

\* ---- edits of hosts that share an ip ----------------------------------------
\* Hosts of these runs: two names on one ip, one name on another ip.
EditInputs ==
    {HostInput(Str("prod"), Str("10.0.0.5")), HostInput(Str("db"), Str("10.0.0.5")),
     HostInput(Str("web"), Str("10.0.0.6"))}

\* The oldHostConfig objects the client sends: the configuration of a host
\* as it read it (name and ip modelled).
OldConfigs == {[name |-> h.name, ip |-> h.ip] : h \in EditInputs}

\* The stored configuration of host is the configuration old.
IsConfigOf(old, host) ==
    \A f \in DOMAIN old : Payload(host)[f] = old[f]

\* The client edits a host it has read: oldHostConfig is the stored
\* configuration of one of the sender's hosts.
NextEdit ==
    \/ \E K \in DerivationInputs, h \in EditInputs :
          /\ store.made.hosts < MaxHosts
          /\ Handled(saveHostConfig(store, K[1], K[2], h, RandomIv(store)))
    \/ \E K \in DerivationInputs, old \in OldConfigs, new \in EditInputs :
          /\ \E i \in 1..Len(store.hosts) :
                /\ store.hosts[i].createdBy = K[1]
                /\ IsConfigOf(old, store.hosts[i])
          /\ store.made.ivs < MaxHosts + MaxEdits
          /\ Handled(editHost(store, K[1], K[2], old, new, RandomIv(store)))
SpecEdit == InitStore /\ [][NextEdit]_vars

\* ---- C38 ------------------------------------------------------------------
\* C38: an editHost request that succeeds changes exactly one record, a
\* record whose stored configuration is the oldHostConfig of the request,
\* and no other record.
C38_EditsTheNamedRecord ==
    [][(/\ store'.op[1] = "editHost"
        /\ "success" \in DOMAIN store'.reply)
           => /\ Cardinality(ChangedHosts(store, store')) = 1
              /\ Len(store'.hosts) = Len(store.hosts)
              /\ \A id \in ChangedHosts(store, store') :
                    IsConfigOf(store'.op[4], RecordOf(store, id)[1])]_vars

\* ---- the terminal component's connect effect (SSHTerminal.tsx) -----------
\* One SSHTerminal component: the runs of its connect effect (one per mount
\* and per hostConfig change), the timers of their deferred connects, the
\* WebSockets and the ping intervals they create, and the two refs.
MaxRuns == 2

MountInit ==
    [started |-> TRUE, runs |-> 0, active |-> FALSE, cleaned |-> {},
     timeouts |-> <<>>, sockets |-> <<>>, intervals |-> <<>>,
     webSocketRef |-> Null, pingIntervalRef |-> Null, op |-> <<"render">>]

Mounted(M) ==
    /\ mount.started
    /\ mount' = M
    /\ UNCHANGED <<relayVars, heartbeat, observer, codec, store, registry, calls, loop>>

\* clearInterval of the interval pingIntervalRef holds, and the ref reset.
ClearPingInterval(M) ==
    IF M.pingIntervalRef # Null
    THEN [M EXCEPT !.intervals[M.pingIntervalRef].scheduled = FALSE,
                   !.pingIntervalRef = Null]
    ELSE M

\* webSocketRef.current?.close(): a socket that is connecting or open
\* starts closing; on a connecting socket `open` is never delivered.
CloseWebSocket(M) ==
    IF M.webSocketRef # Null
    THEN [M EXCEPT !.sockets[M.webSocketRef].readyState =
                       IF @ \in {"CONNECTING", "OPEN"} THEN "CLOSING" ELSE @]
    ELSE M

\* Lines 53-86: the effect runs (mount, or hostConfig changed and the
\* previous run was cleaned up) and defers its connect by 300 ms.
EffectRuns ==
    /\ mount.started
    /\ ~mount.active
    /\ mount.runs < MaxRuns
    /\ Mounted([mount EXCEPT !.runs = @ + 1, !.active = TRUE,
                             !.timeouts = Append(@, mount.runs + 1),
                             !.op = <<"effect", mount.runs + 1>>])

\* Lines 138-146: the cleanup of the current run (unmount or hostConfig
\* change). The deferred connect is not cancelled.
EffectCleanup ==
    /\ mount.started
    /\ mount.active
    /\ Mounted([CloseWebSocket(ClearPingInterval(mount)) EXCEPT
                   !.active = FALSE, !.cleaned = @ \cup {mount.runs},
                   !.op = <<"cleanup", mount.runs>>])

\* Lines 86-98: the timer of the oldest pending run fires: a WebSocket is
\* created and stored in webSocketRef.
DeferredConnect ==
    /\ mount.started
    /\ mount.timeouts # <<>>
    /\ LET run == Head(mount.timeouts)
           ws == Len(mount.sockets) + 1
       IN  Mounted([mount EXCEPT
                       !.timeouts = Tail(@),
                       !.sockets = Append(@, [run |-> run,
                                              readyState |-> "CONNECTING"]),
                       !.webSocketRef = ws,
                       !.op = <<"connect", run>>])

\* Lines 100-111: `open` of WebSocket ws: the ping interval is created and
\* stored in pingIntervalRef.
SocketOpens(ws) ==
    /\ mount.started
    /\ ws \in 1..Len(mount.sockets)
    /\ mount.sockets[ws].readyState = "CONNECTING"
    /\ Mounted([mount EXCEPT
                   !.sockets[ws].readyState = "OPEN",
                   !.intervals = Append(@, [run |-> mount.sockets[ws].run,
                                            scheduled |-> TRUE]),
                   !.pingIntervalRef = Len(mount.intervals) + 1,
                   !.op = <<"open", ws>>])

\* Lines 127-131: WebSocket ws is closed (by close(), by the server or by
\* the network); the handler only writes to the terminal.
SocketCloses(ws) ==
    /\ mount.started
    /\ ws \in 1..Len(mount.sockets)
    /\ mount.sockets[ws].readyState # "CLOSED"
    /\ Mounted([mount EXCEPT !.sockets[ws].readyState = "CLOSED",
                             !.op = <<"close", ws>>])

\* Lines 26-33: disconnect() of the imperative handle.
Disconnect ==
    /\ mount.started
    /\ Mounted([CloseWebSocket(ClearPingInterval(mount)) EXCEPT
                   !.op = <<"disconnect">>])

InitMount ==
    /\ InitRelay
    /\ heartbeat = NotStarted
    /\ observer = NotStarted
    /\ codec = NotStarted
    /\ store = NotStarted
    /\ registry = NotStarted
    /\ calls = NotStarted
    /\ loop = NotStarted
    /\ mount = MountInit

NextMount ==
    \/ EffectRuns
    \/ EffectCleanup
    \/ DeferredConnect
    \/ \E ws \in 1..MaxRuns : SocketOpens(ws)
    \/ \E ws \in 1..MaxRuns : SocketCloses(ws)
    \/ Disconnect
SpecMount == InitMount /\ [][NextMount]_vars

\* ---- C39 ------------------------------------------------------------------
\* The WebSockets that are open.
OpenSockets == {ws \in 1..Len(mount.sockets) : mount.sockets[ws].readyState = "OPEN"}

\* C39: no WebSocket opened by an effect run that has been cleaned up is
\* open, no ping interval created by such a run is scheduled, and the
\* component never has more than one WebSocket open.
C39_CleanupLeavesNothingOpen ==
    mount.started
    => /\ \A ws \in OpenSockets : mount.sockets[ws].run \notin mount.cleaned
       /\ \A i \in 1..Len(mount.intervals) :
             mount.intervals[i].scheduled
                => mount.intervals[i].run \notin mount.cleaned
       /\ Cardinality(OpenSockets) <= 1

====
